---- MODULE Spec2Model ----
(***************************************************************************)
(* Model of the SkinInTheGame indexer: the event handlers of main.ts that  *)
(* project contract events into the News and TokenData tables, and the     *)
(* history repair pass of fixData.ts.                                      *)
(***************************************************************************)
EXTENDS Integers, Sequences, FiniteSets, Bags, TLC

(***************************************************************************)
(* Bounds of the model.                                                    *)
(***************************************************************************)
\* longest raw history handed to fixVolumeHistory in FixSpec
MaxLen == 8
\* longest raw history built from the full set of raw samples
MaxShort == 2
\* events delivered to the indexer in one behaviour of Spec
MaxEvents == 3
\* events delivered, one after another, in one behaviour of SeqSpec
MaxSeqEvents == 4
\* volume events delivered, one after another, in one behaviour of AppendSpec
MaxAppendEvents == 7
\* longest list of comments handed to getBestComment in RankSpec
MaxComments == 3
\* events delivered to the indexer in one behaviour of CommentSpec
MaxCommentEvents == 3
\* longest history a row of the store holds at the start of SweepSpec
MaxStored == 2
\* SaleCreated events delivered concurrently in one behaviour of RaceSpec
MaxRaceEvents == 3
\* events delivered, one after another, in one behaviour of OrderSpec
MaxOrderEvents == 3
\* events delivered to the indexer in one behaviour of PassSpec
MaxPassEvents == 3
\* events delivered to the indexer in one behaviour of FieldSpec
MaxFieldEvents == 3
\* events delivered, one after another, in one behaviour of AllSpec
MaxAllEvents == 3
\* calls of simulateRandomBuy under way at once in PumpSpec
MaxOverlap == 3
\* decimals of one ether in the model's unit of account (ethers has 18; the
\* model scales the unit down to keep amounts within TLC's integers)
EtherDecimals == 2

(***************************************************************************)
(* JavaScript values.  A text is a sequence of one-character strings.  A   *)
(* number is a decimal m * 10^(-e) kept in normal form (e = 0, or m not a  *)
(* multiple of 10), or an infinity (m = 1 or -1), or NaN.                  *)
(***************************************************************************)
Digits == {"0", "1", "2", "3", "4", "5", "6", "7", "8", "9"}

DigitVal(c) ==
  CASE c = "0" -> 0 [] c = "1" -> 1 [] c = "2" -> 2 [] c = "3" -> 3
    [] c = "4" -> 4 [] c = "5" -> 5 [] c = "6" -> 6 [] c = "7" -> 7
    [] c = "8" -> 8 [] c = "9" -> 9

RECURSIVE Pow10(_)
Pow10(n) == IF n <= 0 THEN 1 ELSE 10 * Pow10(n - 1)

NaN == [c |-> "nan", m |-> 0, e |-> 0]

Infinity(sign) == [c |-> "inf", m |-> sign, e |-> 0]

RECURSIVE Dec(_, _)
Dec(m, e) ==
  IF e < 0 THEN Dec(m * 10, e + 1)
  ELSE IF e > 0 /\ m % 10 = 0 THEN Dec(m \div 10, e - 1)
  ELSE [c |-> "fin", m |-> m, e |-> e]

isNaN(n) == n.c = "nan"

\* the sign of a - b, as the subtraction of two non-NaN numbers orders them
\* (Infinity - Infinity is NaN, which a sort comparator treats as 0)
NumCmp(a, b) ==
  IF a.c = "inf" \/ b.c = "inf"
  THEN LET ra == IF a.c = "inf" THEN 2 * a.m ELSE 0
           rb == IF b.c = "inf" THEN 2 * b.m ELSE 0
       IN IF ra < rb THEN -1 ELSE IF ra > rb THEN 1 ELSE 0
  ELSE LET x == a.m * Pow10(b.e)
           y == b.m * Pow10(a.e)
       IN IF x < y THEN -1 ELSE IF x > y THEN 1 ELSE 0

\* the length of the run of decimal digits of s that starts at index i
RECURSIVE DigitRun(_, _)
DigitRun(s, i) ==
  IF i <= Len(s) /\ s[i] \in Digits THEN 1 + DigitRun(s, i + 1) ELSE 0

\* the value of the n digits of s that start at index i
RECURSIVE DigitsValue(_, _, _)
DigitsValue(s, i, n) ==
  IF n = 0 THEN 0 ELSE DigitsValue(s, i, n - 1) * 10 + DigitVal(s[i + n - 1])

\* the number of leading blanks of s from index i on
RECURSIVE BlankRun(_, _)
BlankRun(s, i) ==
  IF i <= Len(s) /\ s[i] = " " THEN 1 + BlankRun(s, i + 1) ELSE 0

HasPrefixAt(s, i, p) ==
  /\ i + Len(p) - 1 <= Len(s)
  /\ \A j \in 1..Len(p) : s[i + j - 1] = p[j]

InfinityText == <<"I", "n", "f", "i", "n", "i", "t", "y">>

\* parseFloat, the exponent: m * 10^(-nf) scaled by the exponent whose digits
\* start at index est (no digit there: the "e" is not part of the number)
ParseExponent(s, m, nf, est, esgn) ==
  Dec(m, nf - esgn * DigitsValue(s, est, DigitRun(s, est)))

\* parseFloat, after the mantissa m * 10^(-nf) that ends before index ex
ParseAfterMantissa(s, m, nf, ex) ==
  IF ex <= Len(s) /\ s[ex] \in {"e", "E"}
  THEN IF ex + 1 <= Len(s) /\ s[ex + 1] = "-" THEN ParseExponent(s, m, nf, ex + 2, -1)
       ELSE IF ex + 1 <= Len(s) /\ s[ex + 1] = "+" THEN ParseExponent(s, m, nf, ex + 2, 1)
       ELSE ParseExponent(s, m, nf, ex + 1, 1)
  ELSE Dec(m, nf)

\* parseFloat, the mantissa: ni digits from index st, then nf digits behind a
\* point (nf = 0 and point = FALSE when there is none)
ParseMantissa(s, st, sgn, ni, point, nf) ==
  IF ni = 0 /\ nf = 0 THEN NaN
  ELSE ParseAfterMantissa(
         s,
         sgn * (DigitsValue(s, st, ni) * Pow10(nf) + DigitsValue(s, st + ni + 1, nf)),
         nf,
         IF point THEN st + ni + 1 + nf ELSE st + ni)

ParseDigits(s, st, sgn, ni) ==
  IF st + ni <= Len(s) /\ s[st + ni] = "."
  THEN ParseMantissa(s, st, sgn, ni, TRUE, DigitRun(s, st + ni + 1))
  ELSE ParseMantissa(s, st, sgn, ni, FALSE, 0)

ParseUnsigned(s, st, sgn) ==
  IF HasPrefixAt(s, st, InfinityText) THEN Infinity(sgn)
  ELSE ParseDigits(s, st, sgn, DigitRun(s, st))

ParseSigned(s, b) ==
  IF b <= Len(s) /\ s[b] = "-" THEN ParseUnsigned(s, b + 1, -1)
  ELSE IF b <= Len(s) /\ s[b] = "+" THEN ParseUnsigned(s, b + 1, 1)
  ELSE ParseUnsigned(s, b, 1)

\* parseFloat: the longest prefix of the trimmed text that is a decimal
\* literal (sign, digits, one point, digits, exponent), or NaN when none is
parseFloat(s) == ParseSigned(s, 1 + BlankRun(s, 1))

\* (text.match(/\./g) || []).length
RECURSIVE dotsCount(_)
dotsCount(s) ==
  IF s = <<>> THEN 0
  ELSE (IF Head(s) = "." THEN 1 ELSE 0) + dotsCount(Tail(s))

(***************************************************************************)
(* A JSON value of a history sample's field: a number, a text, null, a     *)
(* value of another type (a boolean), or undefined (the field is absent).  *)
(***************************************************************************)
NumV(n) == [k |-> "num", n |-> n, s |-> <<>>]

StrV(s) == [k |-> "str", n |-> NaN, s |-> s]

NullV == [k |-> "null", n |-> NaN, s |-> <<>>]

BoolV == [k |-> "bool", n |-> NaN, s |-> <<>>]

UndefV == [k |-> "undef", n |-> NaN, s |-> <<>>]

\* String(v) of a value that is not a number
StringOf(v) ==
  CASE v.k = "str"   -> v.s
    [] v.k = "null"  -> <<"n", "u", "l", "l">>
    [] v.k = "bool"  -> <<"t", "r", "u", "e">>
    [] v.k = "undef" -> <<"u", "n", "d", "e", "f", "i", "n", "e", "d">>

\* an element of the array that is null instead of an object
NullItem == [time |-> UndefV, volume |-> UndefV, nil |-> TRUE]

Item(t, v) == [time |-> t, volume |-> v, nil |-> FALSE]

(***************************************************************************)
(* fixData.ts: fixVolumeHistory.                                           *)
(***************************************************************************)
\* the number a retained item's time stands for (lines 74-77, 89-90, 101)
TimeNum(item) ==
  IF item.time.k = "num" THEN item.time.n ELSE parseFloat(StringOf(item.time))

\* the number a retained item's volume stands for (lines 54-67, 102)
VolumeNum(item) ==
  IF item.volume.k = "num" THEN item.volume.n ELSE parseFloat(item.volume.s)

\* KeepItem without the test for more than one decimal point
KeepItemAnyDots(item) ==
  IF item.nil \/ item.volume.k \in {"null", "undef"} THEN FALSE
  ELSE IF item.volume.k = "num" THEN ~isNaN(TimeNum(item))
  ELSE IF item.volume.k = "str"
       THEN IF isNaN(parseFloat(item.volume.s)) THEN FALSE
            ELSE ~isNaN(TimeNum(item))
  ELSE FALSE

\* KeepItem without the test of the time
KeepItemAnyTime(item) ==
  IF item.nil \/ item.volume.k \in {"null", "undef"} THEN FALSE
  ELSE IF item.volume.k = "num" THEN TRUE
  ELSE IF item.volume.k = "str"
       THEN IF dotsCount(item.volume.s) > 1 THEN FALSE
            ELSE ~isNaN(parseFloat(item.volume.s))
  ELSE FALSE

\* the callback of cloned.filter: TRUE keeps the item
KeepItem(item) ==
  IF item.nil \/ item.volume.k \in {"null", "undef"} THEN FALSE
  ELSE IF item.volume.k = "num" THEN ~isNaN(TimeNum(item))
  ELSE IF item.volume.k = "str"
       THEN IF dotsCount(item.volume.s) > 1 THEN FALSE
            ELSE IF isNaN(parseFloat(item.volume.s)) THEN FALSE
            ELSE ~isNaN(TimeNum(item))
  ELSE FALSE

filtered(original) == SelectSeq(original, KeepItem)

\* x put behind every item of the sorted sequence s whose time is not later
RECURSIVE InsertByTime(_, _)
InsertByTime(s, x) ==
  IF s = <<>> THEN <<x>>
  ELSE IF NumCmp(TimeNum(s[Len(s)]), TimeNum(x)) <= 0 THEN Append(s, x)
  ELSE Append(InsertByTime(SubSeq(s, 1, Len(s) - 1), x), s[Len(s)])

\* sortByTime left out: the filtered items in their raw order
sortByTimeSkipped(s) == s

\* Array.prototype.sort with the comparator tA - tB: a stable ascending sort
RECURSIVE sortByTime(_)
sortByTime(s) ==
  IF s = <<>> THEN <<>>
  ELSE InsertByTime(sortByTime(SubSeq(s, 1, Len(s) - 1)), s[Len(s)])

\* slice with a negative start clamped to 0
sliceClamped(s, start) ==
  LET from == IF start < 0 THEN 0 ELSE start
  IN  IF from >= Len(s) THEN <<>> ELSE SubSeq(s, from + 1, Len(s))

\* Array.prototype.slice(start): a negative start counts from the end
slice(s, start) ==
  LET from == IF start < 0
              THEN (IF Len(s) + start < 0 THEN 0 ELSE Len(s) + start)
              ELSE start
  IN  IF from >= Len(s) THEN <<>> ELSE SubSeq(s, from + 1, Len(s))

\* startIndex with the operands of the subtraction swapped
startIndexSwapped(sorted) == IF Len(sorted) > 4 THEN 7 - Len(sorted) ELSE 0

\* startIndex as the comments state it: the last 4 are kept
startIndexLastFour(sorted) == IF Len(sorted) > 4 THEN Len(sorted) - 4 ELSE 0

startIndex(sorted) == IF Len(sorted) > 4 THEN Len(sorted) - 7 ELSE 0

truncated(sorted) == slice(sorted, startIndex(sorted))

\* the callback of truncated.map: time and volume as numbers
Rebuild(item) == Item(NumV(TimeNum(item)), NumV(VolumeNum(item)))

fixVolumeHistory(original) ==
  LET t == truncated(sortByTime(filtered(original)))
  IN  [i \in 1..Len(t) |-> Rebuild(t[i])]

(***************************************************************************)
(* State.                                                                  *)
(***************************************************************************)
VARIABLES
  original,     \* FixSpec: the raw history handed to fixVolumeHistory
  fixed,        \* FixSpec: the result of fixVolumeHistory(original)
  fixedAgain,   \* FixSpec: the result of fixVolumeHistory(fixed)
  fixStage,     \* FixSpec: "raw", "fixed" or "again"
  indexer,      \* which copy of indexer.ts in main.ts runs: 1 (lines 1-759) or 2
  now,          \* the clock read by new Date().getTime()
  news,         \* the News table: a sequence of rows, in insertion order
  tokenData,    \* the TokenData table: a sequence of rows, in insertion order
  inflight,     \* the event callbacks awaiting a store call, one record each
  events,       \* the number of events delivered so far
  applied,      \* per canonical address: the volume events whose write succeeded
  sweep,        \* checkAndFixAllTokenData: its position and the rows it fetched
  sweepLog,     \* SweepSpec: what became of each row in the last sweep that
                \* ended (prev) and in the sweep under way (cur)
  delivered,    \* OrderSpec, PassSpec: the bag of the events delivered
  pump,         \* pump.ts: processCount, the calls of simulateRandomBuy under
                \* way by what they await, and whether the process has exited
  comments,     \* the Comments table: a sequence of rows, in insertion order
  ranked,       \* per canonical address: the best_comments of the last update
                \* of the comment listener that the store took without error
  allComments,  \* RankSpec: the comments handed to getBestComment
  saleContract, \* RankSpec: per wallet, what tokenBalances answers
  bestComment,  \* RankSpec: the result of getBestComment
  rankStage     \* RankSpec: "list" or "ranked"

fixVars == <<original, fixed, fixedAgain, fixStage>>

storeVars == <<news, tokenData>>

commentVars == <<comments, ranked>>

sysVars == <<indexer, now, news, tokenData, inflight, events, applied, sweep,
             sweepLog, delivered, pump, comments, ranked>>

rankVars == <<allComments, saleContract, bestComment, rankStage>>

vars == <<original, fixed, fixedAgain, fixStage, indexer, now, news, tokenData,
          inflight, events, applied, sweep, sweepLog, delivered, pump,
          comments, ranked,
          allComments, saleContract, bestComment, rankStage>>

Int2Num(i) == Dec(i, 0)

DigitChar(i) ==
  CASE i = 0 -> "0" [] i = 1 -> "1" [] i = 2 -> "2" [] i = 3 -> "3"
    [] i = 4 -> "4" [] i = 5 -> "5" [] i = 6 -> "6" [] i = 7 -> "7"
    [] i = 8 -> "8" [] i = 9 -> "9"

\* the decimal text of a natural number
RECURSIVE NatText(_)
NatText(i) ==
  IF i < 10 THEN <<DigitChar(i)>>
  ELSE Append(NatText(i \div 10), DigitChar(i % 10))


(***************************************************************************)
(* Addresses and amounts.                                                  *)
(***************************************************************************)
\* String.prototype.toLowerCase on one character (the letters of a hex address)
LowerChar(c) ==
  CASE c = "A" -> "a" [] c = "B" -> "b" [] c = "C" -> "c"
    [] c = "D" -> "d" [] c = "E" -> "e" [] c = "F" -> "f"
    [] OTHER -> c

toLowerCase(a) == [i \in 1..Len(a) |-> LowerChar(a[i])]

\* the contract addresses events carry: one with a capital letter, as a
\* checksummed address has, and one without
RawAddresses == { <<"0", "x", "A">>, <<"0", "x", "b">> }

Canonical == {toLowerCase(a) : a \in RawAddresses}

\* the totalRaised amounts events carry, in wei: 0.5 and 1.5 ether
Amounts == {5 * Pow10(EtherDecimals - 1), 15 * Pow10(EtherDecimals - 1)}

\* a text padded with zeros on the left to n characters
RECURSIVE PadZeros(_, _)
PadZeros(t, n) == IF Len(t) >= n THEN t ELSE PadZeros(<<"0">> \o t, n)

\* the zeros at the end dropped, but for the last character
RECURSIVE StripZeros(_)
StripZeros(t) ==
  IF Len(t) > 1 /\ t[Len(t)] = "0" THEN StripZeros(SubSeq(t, 1, Len(t) - 1)) ELSE t

\* ethers.utils.formatEther: wei as a decimal text of ether, with at least
\* one digit behind the point
formatEther(wei) ==
  NatText(wei \div Pow10(EtherDecimals)) \o <<".">>
    \o StripZeros(PadZeros(NatText(wei % Pow10(EtherDecimals)), EtherDecimals))

\* the volume the handler stores: copy 1 keeps the text of formatEther
\* (main.ts:328), copy 2 its parseFloat (main.ts:1010)
newVolume(copy, wei) ==
  IF copy = 1 THEN StrV(formatEther(wei)) ELSE NumV(parseFloat(formatEther(wei)))

\* the name, description and logo a SaleCreated event carries, and the
\* description and logo of a MetaUpdated event
CreatedPayload == "p"

UpdatedPayload == "q"

(***************************************************************************)
(* The store: two tables whose rows are unique by onchainAddress.          *)
(***************************************************************************)
NewsRow(address, date, title, description, imageUrl) ==
  [ onchainAddress |-> address, date |-> date, title |-> title,
    description |-> description, imageUrl |-> imageUrl,
    isLaunched |-> FALSE, best_comments |-> <<>> ]

TokenDataRow(address, volume, volumeHistory) ==
  [ onchainAddress |-> address, volume |-> volume, volumeHistory |-> volumeHistory ]

\* .eq("onchainAddress", key): the indices of the rows the filter selects
Matching(table, key) == {i \in DOMAIN table : table[i].onchainAddress = key}

\* .maybeSingle(): no row is null (the empty sequence), one row is that row
maybeSingle(table, key) ==
  IF Matching(table, key) = {} THEN <<>>
  ELSE <<table[CHOOSE i \in Matching(table, key) : TRUE]>>

\* .maybeSingle() answers with an error when several rows match
SeveralRows(table, key) == Cardinality(Matching(table, key)) > 1

\* a store whose tables take a second row with an address
UniqueViolationNever(table, row) == FALSE

\* onchainAddress is unique in both tables: an insert of a second row with
\* the address fails
UniqueViolation(table, row) == Matching(table, row.onchainAddress) # {}

insert(table, row) == Append(table, row)

\* JSON.stringify of a number on its way to the store: Infinity becomes null
JsonValue(v) == IF v.k = "num" /\ v.n.c = "inf" THEN NullV ELSE v

JsonItem(item) ==
  IF item.nil THEN item ELSE Item(JsonValue(item.time), JsonValue(item.volume))

JsonHistory(h) == [i \in 1..Len(h) |-> JsonItem(h[i])]

(***************************************************************************)
(* getBestComment (main.ts).  A comment is a row of the Comments table;    *)
(* the sale contract answers a balance lookup with a balance or throws.    *)
(***************************************************************************)
Wallets == {"w1", "w2", "w3"}

\* the createdAt of the k-th comment inserted: five minutes after the one
\* before, 10:00 the first
TimeText(k) == <<"1", "0", ":">> \o PadZeros(NatText(5 * (k - 1)), 2)

\* the createdAt texts of the comments handed to getBestComment: three times
\* of one day
CreatedAts == {TimeText(1), TimeText(2), TimeText(3)}

Comment(wallet, content, createdAt, newsId) ==
  [ walletAddress |-> wallet, content |-> content, createdAt |-> createdAt,
    newsId |-> newsId, nil |-> FALSE ]

\* null where a comment is expected
NullComment ==
  [ walletAddress |-> "", content |-> <<>>, createdAt |-> <<>>, newsId |-> <<>>,
    nil |-> TRUE ]

\* what saleContract.tokenBalances(wallet) does: it returns a balance or throws
Balance(b) == [ok |-> TRUE, balance |-> b]

Throws == [ok |-> FALSE, balance |-> 0]

\* the token balances a wallet may hold: none, some, more
Balances == {0, 1, 2}

LookupResults == {Balance(b) : b \in Balances} \cup {Throws}

\* new Date(text).getTime(): the milliseconds of a time hh:mm of the day, and
\* NaN for a text that is no time
getTime(t) ==
  IF /\ Len(t) = 5 /\ t[3] = ":"
     /\ DigitRun(t, 1) = 2 /\ DigitRun(t, 4) = 2
     /\ DigitsValue(t, 1, 2) < 24 /\ DigitsValue(t, 4, 2) < 60
  THEN Int2Num((DigitsValue(t, 1, 2) * 60 + DigitsValue(t, 4, 2)) * 60000)
  ELSE NaN

\* a > b of two numbers: false when either is NaN
NumGt(a, b) == ~isNaN(a) /\ ~isNaN(b) /\ NumCmp(a, b) > 0

\* the pair the loop of getBestComment carries
Best(comment, balance) == [bestComment |-> comment, bestBalance |-> balance]

\* the loop body with the tie-break taken on an earlier or equal createdAt
scanStepEarlierWins(best, comment, result) ==
  IF ~result.ok THEN best
  ELSE IF result.balance > best.bestBalance THEN Best(comment, result.balance)
  ELSE IF result.balance = best.bestBalance /\ ~best.bestComment.nil
          /\ ~NumGt(getTime(comment.createdAt), getTime(best.bestComment.createdAt))
       THEN Best(comment, best.bestBalance)
  ELSE best

\* the loop body with a lookup that throws counted as a balance of 0 found
scanStepThrowIsZero(best, comment, result) ==
  IF result.balance > best.bestBalance THEN Best(comment, result.balance)
  ELSE IF result.balance = best.bestBalance
          /\ (best.bestComment.nil
              \/ NumGt(getTime(comment.createdAt), getTime(best.bestComment.createdAt)))
       THEN Best(comment, best.bestBalance)
  ELSE best

\* the loop body with a balance as great as the best taking its place
scanStepGreaterOrEqual(best, comment, result) ==
  IF ~result.ok THEN best
  ELSE IF result.balance >= best.bestBalance /\ result.balance > 0
       THEN Best(comment, result.balance)
  ELSE best

\* the loop body with a best, once found, never displaced
scanStepKeepsFirst(best, comment, result) ==
  IF result.ok /\ best.bestComment.nil /\ result.balance > best.bestBalance
  THEN Best(comment, result.balance)
  ELSE best

\* the loop body with the first comment taken as the best whatever its balance
scanStepFirstIsBest(best, comment, result) ==
  IF ~result.ok THEN best
  ELSE IF result.balance > best.bestBalance \/ best.bestComment.nil
       THEN Best(comment, result.balance)
  ELSE IF result.balance = best.bestBalance
          /\ NumGt(getTime(comment.createdAt), getTime(best.bestComment.createdAt))
       THEN Best(comment, best.bestBalance)
  ELSE best

\* one turn of the loop: the lookup of the comment's wallet, gt, then eq with
\* the tie-break on createdAt; a lookup that throws leaves the best as it is
scanStep(best, comment, result) ==
  IF ~result.ok THEN best
  ELSE IF result.balance > best.bestBalance THEN Best(comment, result.balance)
  ELSE IF result.balance = best.bestBalance /\ ~best.bestComment.nil
          /\ NumGt(getTime(comment.createdAt), getTime(best.bestComment.createdAt))
       THEN Best(comment, best.bestBalance)
  ELSE best

\* the loop over allComments from index i on
RECURSIVE scanFrom(_, _, _, _)
scanFrom(list, contract, i, best) ==
  IF i > Len(list) THEN best
  ELSE scanFrom(list, contract, i + 1,
                scanStep(best, list[i], contract[list[i].walletAddress]))

getBestComment(list, contract) ==
  scanFrom(list, contract, 1, Best(NullComment, 0)).bestComment

(***************************************************************************)
(* Event callbacks (listenToEvents).  A callback in flight is a record:    *)
(* its event, the time it took, and the row its select returned.           *)
(***************************************************************************)
Handler(id, kind, pc, addr, ts, amount, payload) ==
  [ id |-> id, kind |-> kind, pc |-> pc, addr |-> addr, ts |-> ts,
    amount |-> amount, payload |-> payload, existing |-> <<>>, failed |-> FALSE,
    readFailed |-> FALSE ]

addressLower(h) == toLowerCase(h.addr)

Moved(h, pc) == (inflight \ {h}) \cup {[h EXCEPT !.pc = pc]}

Failed(h, pc) == (inflight \ {h}) \cup {[h EXCEPT !.pc = pc, !.failed = TRUE]}

\* the callback goes on after a select that returned an error
ReadFailed(h, pc) ==
  (inflight \ {h}) \cup {[h EXCEPT !.pc = pc, !.failed = TRUE, !.readFailed = TRUE]}

SweepIdle == [pc |-> "idle", rows |-> <<>>, idx |-> 0]

\* the buy simulator before its first timer callback
PumpIdle ==
  [ processCount |-> 0, update |-> 0, checkAndFix |-> 0, replace |-> 0,
    exited |-> FALSE ]

SysIdle ==
  /\ now = 1
  /\ news = <<>>
  /\ tokenData = <<>>
  /\ inflight = {}
  /\ events = 0
  /\ applied = [a \in Canonical |-> <<>>]
  /\ sweep = SweepIdle
  /\ sweepLog = [prev |-> <<>>, cur |-> <<>>]
  /\ delivered = EmptyBag
  /\ pump = PumpIdle
  /\ comments = <<>>
  /\ ranked = [a \in Canonical |-> <<>>]

RankIdle ==
  /\ allComments = <<>>
  /\ saleContract = [w \in Wallets |-> Throws]
  /\ bestComment = NullComment
  /\ rankStage = "list"

FixIdle ==
  /\ original = <<>>
  /\ fixed = <<>>
  /\ fixedAgain = <<>>
  /\ fixStage = "raw"

\* the least number that names no callback in flight
FreeId ==
  CHOOSE i \in 1..(Cardinality(inflight) + 1) :
    /\ \A h \in inflight : h.id # i
    /\ \A j \in 1..(i - 1) : \E h \in inflight : h.id = j

\* an event reaches its callback, which takes the time (getBlockTimestampMs)
\* where it needs one and issues its first store call
Deliver(limit, kind, pc, addr, ts, amount, payload) ==
  /\ events < limit
  /\ inflight' = inflight \cup {Handler(FreeId, kind, pc, addr, ts, amount, payload)}
  /\ now' = ts
  /\ events' = events + 1
  /\ UNCHANGED <<indexer, news, tokenData, applied, sweep, ranked>>
  /\ UNCHANGED fixVars
  /\ UNCHANGED <<sweepLog, pump>>
  /\ UNCHANGED rankVars

OnSaleCreated(limit) ==
  \E addr \in RawAddresses :
    /\ Deliver(limit, "SaleCreated", "newsRead", addr, now, 0, CreatedPayload)
    /\ UNCHANGED comments

OnSaleLaunched(limit) ==
  \E addr \in RawAddresses :
    /\ Deliver(limit, "SaleLaunched", "update", addr, now, 0, "")
    /\ UNCHANGED comments

\* TokensBought and TokensSold: the two callbacks are the same
OnVolumeEvent(limit) ==
  \E addr \in RawAddresses, amount \in Amounts, ts \in {now, now + 1} :
    /\ Deliver(limit, "Volume", "read", addr, ts, amount, "")
    /\ UNCHANGED comments

OnMetaUpdated(limit) ==
  \E addr \in RawAddresses :
    /\ Deliver(limit, "MetaUpdated", "update", addr, now, 0, UpdatedPayload)
    /\ UNCHANGED comments

\* handleClaimed logs the event and touches no table
OnClaimed(limit) ==
  /\ events < limit
  /\ events' = events + 1
  /\ UNCHANGED <<indexer, now, news, tokenData, inflight, applied, sweep>>
  /\ UNCHANGED fixVars
  /\ UNCHANGED <<sweepLog, pump>>
  /\ UNCHANGED rankVars
  /\ UNCHANGED commentVars

(***************************************************************************)
(* SaleCreated: insertNewsOnSaleCreated, then insertTokenDataOnSaleCreated *)
(***************************************************************************)
newsRowOf(h) ==
  NewsRow(addressLower(h), NatText(h.ts), <<"name", h.payload>>,
          <<"description", h.payload>>, <<"logoUrl", h.payload>>)

\* insertNewsSelect with the row found overwritten by the row of the event
insertNewsSelectOverwrite(h) ==
  /\ h.kind = "SaleCreated" /\ h.pc = "newsRead"
  /\ \E ok \in BOOLEAN :
       IF ~ok \/ SeveralRows(news, addressLower(h))
       THEN inflight' = ReadFailed(h, "tokenRead") /\ news' = news
       ELSE IF maybeSingle(news, addressLower(h)) # <<>>
       THEN /\ inflight' = Moved(h, "tokenRead")
            /\ news' = [i \in 1..Len(news) |->
                       IF news[i].onchainAddress = addressLower(h)
                       THEN newsRowOf(h) ELSE news[i]]
       ELSE inflight' = Moved(h, "newsInsert") /\ news' = news
  /\ UNCHANGED <<indexer, now, tokenData, events, applied, sweep>>
  /\ UNCHANGED fixVars
  /\ UNCHANGED <<sweepLog, delivered, pump>>
  /\ UNCHANGED rankVars
  /\ UNCHANGED commentVars

\* insertNewsSelect with an error of the select taken for no row found
insertNewsSelectIgnoresError(h) ==
  /\ h.kind = "SaleCreated" /\ h.pc = "newsRead"
  /\ \E ok \in BOOLEAN :
       inflight' =
         IF ~ok \/ SeveralRows(news, addressLower(h)) THEN ReadFailed(h, "newsInsert")
         ELSE IF maybeSingle(news, addressLower(h)) # <<>> THEN Moved(h, "tokenRead")
         ELSE Moved(h, "newsInsert")
  /\ UNCHANGED <<indexer, now, news, tokenData, events, applied, sweep>>
  /\ UNCHANGED fixVars
  /\ UNCHANGED <<sweepLog, delivered, pump>>
  /\ UNCHANGED rankVars
  /\ UNCHANGED commentVars

\* the select of insertNewsOnSaleCreated returns: an error or a row found
\* ends the function, and the callback goes on to the TokenData table
insertNewsSelect(h) ==
  /\ h.kind = "SaleCreated" /\ h.pc = "newsRead"
  /\ \E ok \in BOOLEAN :
       inflight' =
         IF ~ok \/ SeveralRows(news, addressLower(h)) THEN ReadFailed(h, "tokenRead")
         ELSE IF maybeSingle(news, addressLower(h)) # <<>> THEN Moved(h, "tokenRead")
         ELSE Moved(h, "newsInsert")
  /\ UNCHANGED <<indexer, now, news, tokenData, events, applied, sweep>>
  /\ UNCHANGED fixVars
  /\ UNCHANGED <<sweepLog, delivered, pump>>
  /\ UNCHANGED rankVars
  /\ UNCHANGED commentVars

insertNewsInsert(h) ==
  /\ h.kind = "SaleCreated" /\ h.pc = "newsInsert"
  /\ \E ok \in BOOLEAN :
       IF ok /\ ~UniqueViolation(news, newsRowOf(h))
       THEN /\ news' = insert(news, newsRowOf(h))
            /\ inflight' = Moved(h, "tokenRead")
       ELSE /\ news' = news
            /\ inflight' = Failed(h, "tokenRead")
  /\ UNCHANGED <<indexer, now, tokenData, events, applied, sweep>>
  /\ UNCHANGED fixVars
  /\ UNCHANGED <<sweepLog, delivered, pump>>
  /\ UNCHANGED rankVars
  /\ UNCHANGED commentVars

emptyTokenData(h) == TokenDataRow(addressLower(h), NumV(Int2Num(0)), <<>>)

\* insertTokenDataSelect with the row found put back to the empty row
insertTokenDataSelectResets(h) ==
  /\ h.kind = "SaleCreated" /\ h.pc = "tokenRead"
  /\ \E ok \in BOOLEAN :
       IF ~ok \/ SeveralRows(tokenData, addressLower(h))
       THEN inflight' = inflight \ {h} /\ tokenData' = tokenData
       ELSE IF maybeSingle(tokenData, addressLower(h)) # <<>>
       THEN /\ inflight' = inflight \ {h}
            /\ tokenData' = [i \in 1..Len(tokenData) |->
                               IF tokenData[i].onchainAddress = addressLower(h)
                               THEN emptyTokenData(h) ELSE tokenData[i]]
       ELSE inflight' = Moved(h, "tokenInsert") /\ tokenData' = tokenData
  /\ UNCHANGED <<indexer, now, news, events, applied, sweep>>
  /\ UNCHANGED fixVars
  /\ UNCHANGED <<sweepLog, delivered, pump>>
  /\ UNCHANGED rankVars
  /\ UNCHANGED commentVars

\* the select of insertTokenDataOnSaleCreated returns: an error or a row
\* found ends the callback
insertTokenDataSelect(h) ==
  /\ h.kind = "SaleCreated" /\ h.pc = "tokenRead"
  /\ \E ok \in BOOLEAN :
       inflight' =
         IF ~ok \/ SeveralRows(tokenData, addressLower(h)) THEN inflight \ {h}
         ELSE IF maybeSingle(tokenData, addressLower(h)) # <<>> THEN inflight \ {h}
         ELSE Moved(h, "tokenInsert")
  /\ UNCHANGED <<indexer, now, news, tokenData, events, applied, sweep>>
  /\ UNCHANGED fixVars
  /\ UNCHANGED <<sweepLog, delivered, pump>>
  /\ UNCHANGED rankVars
  /\ UNCHANGED commentVars

insertTokenDataInsert(h) ==
  /\ h.kind = "SaleCreated" /\ h.pc = "tokenInsert"
  /\ \E ok \in BOOLEAN :
       tokenData' =
         IF ok /\ ~UniqueViolation(tokenData, emptyTokenData(h))
         THEN insert(tokenData, emptyTokenData(h))
         ELSE tokenData
  /\ inflight' = inflight \ {h}
  /\ UNCHANGED <<indexer, now, news, events, applied, sweep>>
  /\ UNCHANGED fixVars
  /\ UNCHANGED <<sweepLog, delivered, pump>>
  /\ UNCHANGED rankVars
  /\ UNCHANGED commentVars

(***************************************************************************)
(* SaleLaunched and MetaUpdated: one update each                           *)
(***************************************************************************)
\* setLaunched as an upsert: a row is made for an address that has none
setLaunchedUpsert(table, key) ==
  IF Matching(table, key) = {}
  THEN Append(table, [NewsRow(key, <<>>, <<>>, <<>>, <<>>) EXCEPT !.isLaunched = TRUE])
  ELSE [i \in 1..Len(table) |->
          IF table[i].onchainAddress = key
          THEN [table[i] EXCEPT !.isLaunched = TRUE]
          ELSE table[i]]

\* setLaunched with no filter on the address: every row is updated
setLaunchedEveryRow(table, key) ==
  [i \in 1..Len(table) |-> [table[i] EXCEPT !.isLaunched = TRUE]]

\* .update({isLaunched: true}).eq("onchainAddress", key)
setLaunched(table, key) ==
  [i \in 1..Len(table) |->
     IF table[i].onchainAddress = key
     THEN [table[i] EXCEPT !.isLaunched = TRUE]
     ELSE table[i]]

updateNewsIsLaunched(h) ==
  /\ h.kind = "SaleLaunched" /\ h.pc = "update"
  /\ \E ok \in BOOLEAN :
       news' = IF ok THEN setLaunched(news, addressLower(h)) ELSE news
  /\ inflight' = inflight \ {h}
  /\ UNCHANGED <<indexer, now, tokenData, events, applied, sweep>>
  /\ UNCHANGED fixVars
  /\ UNCHANGED <<sweepLog, delivered, pump>>
  /\ UNCHANGED rankVars
  /\ UNCHANGED commentVars

\* setMetadata writing a whole fresh row in place of the two columns
setMetadataWholeRow(table, key, payload) ==
  [i \in 1..Len(table) |->
     IF table[i].onchainAddress = key
     THEN NewsRow(key, table[i].date, table[i].title,
                  <<"description", payload>>, <<"logoUrl", payload>>)
     ELSE table[i]]

\* setMetadata with the description written to the title as well
setMetadataWithTitle(table, key, payload) ==
  [i \in 1..Len(table) |->
     IF table[i].onchainAddress = key
     THEN [table[i] EXCEPT !.imageUrl = <<"logoUrl", payload>>,
                           !.description = <<"description", payload>>,
                           !.title = <<"description", payload>>]
     ELSE table[i]]

\* .update({imageUrl, description}).eq("onchainAddress", key)
setMetadata(table, key, payload) ==
  [i \in 1..Len(table) |->
     IF table[i].onchainAddress = key
     THEN [table[i] EXCEPT !.imageUrl = <<"logoUrl", payload>>,
                           !.description = <<"description", payload>>]
     ELSE table[i]]

updateNewsMetadata(h) ==
  /\ h.kind = "MetaUpdated" /\ h.pc = "update"
  /\ \E ok \in BOOLEAN :
       news' = IF ok THEN setMetadata(news, addressLower(h), h.payload) ELSE news
  /\ inflight' = inflight \ {h}
  /\ UNCHANGED <<indexer, now, tokenData, events, applied, sweep>>
  /\ UNCHANGED fixVars
  /\ UNCHANGED <<sweepLog, delivered, pump>>
  /\ UNCHANGED rankVars
  /\ UNCHANGED commentVars

(***************************************************************************)
(* listenToSupabaseComments: an INSERT into Comments recomputes the        *)
(* best_comments of the News row (copy 1 of the indexer only).             *)
(***************************************************************************)
\* the newsId of comments: two spellings of the address of one contract
CommentAddresses == { <<"0", "x", "A">>, <<"0", "x", "a">> }

\* a row is inserted into Comments and the channel notifies the callback
OnCommentInserted(limit) ==
  /\ indexer = 1
  /\ Len(comments) < MaxComments
  /\ \E newsId \in CommentAddresses, w \in Wallets :
       /\ comments' = Append(comments,
                             Comment(w, NatText(Len(comments) + 1),
                                     TimeText(Len(comments) + 1), newsId))
       /\ Deliver(limit, "Comment", "news", newsId, now, 0, "")

\* commentNewsSelect going on to the comments when no row is found
commentNewsSelectAnyway(h) ==
  /\ h.kind = "Comment" /\ h.pc = "news"
  /\ \E ok \in BOOLEAN :
       inflight' =
         IF ~ok \/ SeveralRows(news, addressLower(h))
         THEN inflight \ {h}
         ELSE Moved(h, "comments")
  /\ UNCHANGED <<indexer, now, news, tokenData, events, applied, sweep>>
  /\ UNCHANGED fixVars
  /\ UNCHANGED <<sweepLog, delivered, pump>>
  /\ UNCHANGED rankVars
  /\ UNCHANGED commentVars

\* select of the News row by newComment.newsId.toLowerCase(): an error or no
\* row ends the callback
commentNewsSelect(h) ==
  /\ h.kind = "Comment" /\ h.pc = "news"
  /\ \E ok \in BOOLEAN :
       inflight' =
         IF \/ ~ok
            \/ SeveralRows(news, addressLower(h))
            \/ maybeSingle(news, addressLower(h)) = <<>>
         THEN inflight \ {h}
         ELSE Moved(h, "comments")
  /\ UNCHANGED <<indexer, now, news, tokenData, events, applied, sweep>>
  /\ UNCHANGED fixVars
  /\ UNCHANGED <<sweepLog, delivered, pump>>
  /\ UNCHANGED rankVars
  /\ UNCHANGED commentVars

\* x put before every row of s, sorted descending, that is not created later
RECURSIVE InsertByCreatedAt(_, _)
InsertByCreatedAt(s, x) ==
  IF s = <<>> THEN <<x>>
  ELSE IF NumCmp(getTime(s[Len(s)].createdAt), getTime(x.createdAt)) >= 0
       THEN Append(s, x)
  ELSE Append(InsertByCreatedAt(SubSeq(s, 1, Len(s) - 1), x), s[Len(s)])

\* .order("createdAt", { ascending: false })
RECURSIVE orderByCreatedAtDesc(_)
orderByCreatedAtDesc(s) ==
  IF s = <<>> THEN <<>>
  ELSE InsertByCreatedAt(orderByCreatedAtDesc(SubSeq(s, 1, Len(s) - 1)), s[Len(s)])

\* .eq("newsId", key) on Comments
RECURSIVE commentsOf(_, _)
commentsOf(table, key) ==
  IF table = <<>> THEN <<>>
  ELSE IF Head(table).newsId = key
       THEN <<Head(table)>> \o commentsOf(Tail(table), key)
       ELSE commentsOf(Tail(table), key)

\* select of the comments by newComment.newsId.toLowerCase(): an error or no
\* row ends the callback
commentsSelect(h) ==
  /\ h.kind = "Comment" /\ h.pc = "comments"
  /\ \E ok \in BOOLEAN :
       inflight' =
         IF ~ok \/ commentsOf(comments, addressLower(h)) = <<>>
         THEN inflight \ {h}
         ELSE (inflight \ {h}) \cup
                {[h EXCEPT !.pc = "rank",
                           !.existing =
                             orderByCreatedAtDesc(commentsOf(comments, addressLower(h)))]}
  /\ UNCHANGED <<indexer, now, news, tokenData, events, applied, sweep>>
  /\ UNCHANGED fixVars
  /\ UNCHANGED <<sweepLog, delivered, pump>>
  /\ UNCHANGED rankVars
  /\ UNCHANGED commentVars

\* the wallets of the comments of a list
walletsOf(list) == {list[i].walletAddress : i \in DOMAIN list}

\* getBestComment with the sale contract of newComment.newsId; a null
\* result ends the callback
commentRankWith(h, contract) ==
  /\ h.kind = "Comment" /\ h.pc = "rank"
  /\ inflight' =
       IF getBestComment(h.existing, contract).nil
       THEN inflight \ {h}
       ELSE (inflight \ {h}) \cup
              {[h EXCEPT !.pc = "update",
                         !.existing = <<getBestComment(h.existing, contract)>>]}
  /\ UNCHANGED <<indexer, now, news, tokenData, events, applied, sweep>>
  /\ UNCHANGED fixVars
  /\ UNCHANGED <<sweepLog, delivered, pump>>
  /\ UNCHANGED rankVars
  /\ UNCHANGED commentVars

bestCommentsPayload(best) ==
  << [ content |-> best.content, walletAddress |-> best.walletAddress,
       position |-> "default" ] >>

\* setBestComments writing the row anew, as SaleCreated made it, with the
\* best_comments
setBestCommentsFreshRow(table, key, payload) ==
  [i \in 1..Len(table) |->
     IF table[i].onchainAddress = key
     THEN [NewsRow(key, table[i].date, table[i].title, <<"description", CreatedPayload>>,
                   <<"logoUrl", CreatedPayload>>) EXCEPT !.best_comments = payload]
     ELSE table[i]]

\* .update({ best_comments }).eq("onchainAddress", key)
setBestComments(table, key, payload) ==
  [i \in 1..Len(table) |->
     IF table[i].onchainAddress = key
     THEN [table[i] EXCEPT !.best_comments = payload]
     ELSE table[i]]

\* the ranking of the callback, whatever the balances of the contract are
commentRank(h) ==
  /\ h.kind = "Comment" /\ h.pc = "rank"
  /\ \E contract \in [walletsOf(h.existing) -> LookupResults] : commentRankWith(h, contract)

\* the update of News, keyed by newComment.newsId as it came
updateBestComments(h) ==
  /\ h.kind = "Comment" /\ h.pc = "update"
  /\ \E ok \in BOOLEAN :
       IF ok
       THEN /\ news' = setBestComments(news, h.addr, bestCommentsPayload(h.existing[1]))
            /\ ranked' = [ranked EXCEPT ![addressLower(h)] =
                            bestCommentsPayload(h.existing[1])]
       ELSE UNCHANGED <<news, ranked>>
  /\ inflight' = inflight \ {h}
  /\ UNCHANGED <<indexer, now, tokenData, events, applied, sweep, comments>>
  /\ UNCHANGED fixVars
  /\ UNCHANGED <<sweepLog, delivered, pump>>
  /\ UNCHANGED rankVars

(***************************************************************************)
(* TokensBought / TokensSold: updateTokenDataVolume                        *)
(***************************************************************************)
\* the sample of the event: { time: blockTimestampMs, volume }
sampleOf(copy, h) == Item(NumV(Int2Num(h.ts)), newVolume(copy, h.amount))

updateTokenDataVolumeSelect(h) ==
  /\ h.kind = "Volume" /\ h.pc = "read"
  /\ \E ok \in BOOLEAN :
       inflight' =
         IF ~ok \/ SeveralRows(tokenData, addressLower(h)) THEN inflight \ {h}
         ELSE (inflight \ {h}) \cup
                {[h EXCEPT !.pc = "write",
                           !.existing = maybeSingle(tokenData, addressLower(h))]}
  /\ UNCHANGED <<indexer, now, news, tokenData, events, applied, sweep>>
  /\ UNCHANGED fixVars
  /\ UNCHANGED <<sweepLog, delivered, pump>>
  /\ UNCHANGED rankVars
  /\ UNCHANGED commentVars

\* oldHistory.push(sample) on the history of the row read
\* updatedHistory with the sample put in front
updatedHistoryUnshift(existing, sample) == <<sample>> \o existing[1].volumeHistory

updatedHistory(existing, sample) == Append(existing[1].volumeHistory, sample)

\* .update({volume, volumeHistory: oldHistory}).eq("onchainAddress", key)
\* the update as an append to the history the store holds at the write
updateVolumeInPlace(copy, table, h) ==
  [i \in 1..Len(table) |->
     IF table[i].onchainAddress = addressLower(h)
     THEN [table[i] EXCEPT !.volume = newVolume(copy, h.amount),
                           !.volumeHistory = Append(@, sampleOf(copy, h))]
     ELSE table[i]]

updateVolume(copy, table, h) ==
  [i \in 1..Len(table) |->
     IF table[i].onchainAddress = addressLower(h)
     THEN [table[i] EXCEPT !.volume = newVolume(copy, h.amount),
                           !.volumeHistory = updatedHistory(h.existing, sampleOf(copy, h))]
     ELSE table[i]]

firstTokenData(copy, h) ==
  TokenDataRow(addressLower(h), newVolume(copy, h.amount), <<sampleOf(copy, h)>>)

\* the write of the handler succeeds: the insert of a first row, or the update
VolumeWritten(h) ==
  /\ tokenData' =
       IF h.existing = <<>>
       THEN insert(tokenData, firstTokenData(indexer, h))
       ELSE updateVolume(indexer, tokenData, h)
  /\ applied' = [applied EXCEPT ![addressLower(h)] =
                   Append(@, [ts |-> h.ts, amount |-> h.amount])]

updateTokenDataVolumeWrite(h) ==
  /\ h.kind = "Volume" /\ h.pc = "write"
  /\ \E ok \in BOOLEAN :
       IF ok /\ (h.existing # <<>> \/ ~UniqueViolation(tokenData, firstTokenData(indexer, h)))
       THEN VolumeWritten(h)
       ELSE UNCHANGED <<tokenData, applied>>
  /\ inflight' = inflight \ {h}
  /\ UNCHANGED <<indexer, now, news, events, sweep>>
  /\ UNCHANGED fixVars
  /\ UNCHANGED <<sweepLog, delivered, pump>>
  /\ UNCHANGED rankVars
  /\ UNCHANGED commentVars

(***************************************************************************)
(* fixData.ts: checkAndFixAllTokenData                                     *)
(***************************************************************************)
\* select("*") of the whole table; no row, or an error, ends the sweep
sweepSelect ==
  /\ sweep.pc = "idle"
  /\ \E ok \in BOOLEAN :
       sweep' = IF ok /\ tokenData # <<>>
                THEN [pc |-> "rows", rows |-> tokenData, idx |-> 1]
                ELSE SweepIdle
  /\ UNCHANGED <<indexer, now, news, tokenData, inflight, events, applied>>
  /\ UNCHANGED fixVars
  /\ UNCHANGED <<sweepLog, delivered, pump>>
  /\ UNCHANGED rankVars
  /\ UNCHANGED commentVars

\* originalStr === fixedStr
noChanges(row) ==
  JsonHistory(row.volumeHistory) = JsonHistory(fixVolumeHistory(row.volumeHistory))

\* newVolumeOf taking the volume of the first sample
newVolumeOfFirst(history) ==
  IF Len(history) > 0 THEN history[1].volume ELSE NumV(Int2Num(0))

\* newVolume: the volume of the last sample of the fixed history, or 0
newVolumeOf(history) ==
  IF Len(history) > 0 THEN history[Len(history)].volume ELSE NumV(Int2Num(0))

\* updateFixed writing the history and leaving the volume to a later update
updateFixedHistoryOnly(table, key, history) ==
  [i \in 1..Len(table) |->
     IF table[i].onchainAddress = key
     THEN [table[i] EXCEPT !.volumeHistory = JsonHistory(history)]
     ELSE table[i]]

\* .update({volumeHistory: fixed, volume: newVolume}).eq("onchainAddress", ...)
updateFixed(table, key, history) ==
  [i \in 1..Len(table) |->
     IF table[i].onchainAddress = key
     THEN [table[i] EXCEPT !.volume = JsonValue(newVolumeOf(history)),
                           !.volumeHistory = JsonHistory(history)]
     ELSE table[i]]

\* what becomes of a row of the loop: no changes found, the update taken by
\* the store, or the update refused (updateError, or a throw caught)
rowOutcome(row, ok) ==
  IF noChanges(row) THEN "same" ELSE IF ok THEN "written" ELSE "failed"

\* the loop with a refused update ending the sweep
sweepAdvanceUntilError(outcome) ==
  IF sweep.idx < Len(sweep.rows) /\ outcome # "failed"
  THEN [sweep EXCEPT !.idx = @ + 1]
  ELSE SweepIdle

\* the loop goes on to the next row fetched, whatever became of this one
sweepAdvance(outcome) ==
  IF sweep.idx < Len(sweep.rows)
  THEN [sweep EXCEPT !.idx = @ + 1]
  ELSE SweepIdle

\* one turn of the loop over the rows fetched
sweepTurn(ok) ==
  /\ sweep.pc = "rows"
  /\ tokenData' =
       IF rowOutcome(sweep.rows[sweep.idx], ok) = "written"
       THEN updateFixed(tokenData, sweep.rows[sweep.idx].onchainAddress,
                        fixVolumeHistory(sweep.rows[sweep.idx].volumeHistory))
       ELSE tokenData
  /\ sweep' = sweepAdvance(rowOutcome(sweep.rows[sweep.idx], ok))
  /\ UNCHANGED <<indexer, now, news, inflight, events, applied, delivered, pump>>
  /\ UNCHANGED fixVars
  /\ UNCHANGED rankVars
  /\ UNCHANGED commentVars

sweepRow == \E ok \in BOOLEAN : sweepTurn(ok) /\ UNCHANGED sweepLog

\* the outcome of the turn put on record; the record of a sweep that ends
\* takes the place of the one before
logged(outcome) ==
  IF sweep'.pc = "idle"
  THEN [prev |-> Append(sweepLog.cur, outcome), cur |-> <<>>]
  ELSE [sweepLog EXCEPT !.cur = Append(@, outcome)]

\* sweepRow with what became of the row put on record
sweepRowLogged ==
  \E ok \in BOOLEAN :
    /\ sweepTurn(ok)
    /\ sweepLog' = logged(rowOutcome(sweep.rows[sweep.idx], ok))

(***************************************************************************)
(* Spec: events delivered concurrently, and repair sweeps.                 *)
(* SeqSpec: events handled to completion one after another, no sweep.      *)
(***************************************************************************)
Init ==
  /\ FixIdle
  /\ RankIdle
  /\ indexer \in {1, 2}
  /\ SysIdle

Step(h) ==
  \/ insertNewsSelect(h)
  \/ insertNewsInsert(h)
  \/ insertTokenDataSelect(h)
  \/ insertTokenDataInsert(h)
  \/ updateNewsIsLaunched(h)
  \/ updateNewsMetadata(h)
  \/ updateTokenDataVolumeSelect(h)
  \/ updateTokenDataVolumeWrite(h)

Event(limit) ==
  \/ OnSaleCreated(limit)
  \/ OnSaleLaunched(limit)
  \/ OnVolumeEvent(limit)
  \/ OnMetaUpdated(limit)
  \/ OnClaimed(limit)

Next ==
  \/ Event(MaxEvents) /\ UNCHANGED delivered
  \/ \E h \in inflight : Step(h)
  \/ sweepSelect
  \/ sweepRow

Spec == Init /\ [][Next]_vars

SeqNext ==
  \/ inflight = {} /\ Event(MaxSeqEvents) /\ UNCHANGED delivered
  \/ \E h \in inflight : Step(h)

SeqSpec == Init /\ [][SeqNext]_vars

(***************************************************************************)
(* AppendSpec: volume events of one contract, handled to completion one    *)
(* after another on a store that holds nothing of the contract.            *)
(***************************************************************************)
FreshAddress == <<"0", "x", "A">>

OnFreshVolumeEvent ==
  \E amount \in Amounts, ts \in {now, now + 1} :
    /\ Deliver(MaxAppendEvents, "Volume", "read", FreshAddress, ts, amount, "")
    /\ UNCHANGED comments

AppendStep(h) ==
  \/ updateTokenDataVolumeSelect(h)
  \/ updateTokenDataVolumeWrite(h)

AppendNext ==
  \/ inflight = {} /\ OnFreshVolumeEvent /\ UNCHANGED delivered
  \/ \E h \in inflight : AppendStep(h)

AppendSpec == Init /\ [][AppendNext]_vars

(***************************************************************************)
(* CommentSpec: copy 1 of the indexer with the callbacks that write News   *)
(* (SaleCreated, SaleLaunched, MetaUpdated, comment inserts), concurrent.  *)
(***************************************************************************)
CommentInit ==
  /\ FixIdle
  /\ RankIdle
  /\ indexer = 1
  /\ SysIdle

CommentStep(h) ==
  \/ insertNewsSelect(h)
  \/ insertNewsInsert(h)
  \/ insertTokenDataSelect(h)
  \/ insertTokenDataInsert(h)
  \/ updateNewsIsLaunched(h)
  \/ updateNewsMetadata(h)
  \/ commentNewsSelect(h)
  \/ commentsSelect(h)
  \/ commentRank(h)
  \/ updateBestComments(h)

CommentEvent ==
  \/ OnSaleCreated(MaxCommentEvents)
  \/ OnSaleLaunched(MaxCommentEvents)
  \/ OnMetaUpdated(MaxCommentEvents)
  \/ OnCommentInserted(MaxCommentEvents)
  \/ OnClaimed(MaxCommentEvents)

CommentNext ==
  \/ CommentEvent /\ UNCHANGED delivered
  \/ \E h \in inflight : CommentStep(h)

CommentSpec == CommentInit /\ [][CommentNext]_vars

(***************************************************************************)
(* A store that answers: no call of the callback returns an error but the  *)
(* insert of a second row with an address (the unique constraint).         *)
(***************************************************************************)
\* the step of the callback h is one whose store call returned no error
\* other than that of the unique constraint
StoreAnswers(h) ==
  CASE h.kind = "SaleCreated" /\ h.pc = "newsRead" ->
         \A g \in inflight' : g.id = h.id => ~g.readFailed
    [] h.kind = "SaleCreated" /\ h.pc = "newsInsert" ->
         news' # news \/ UniqueViolation(news, newsRowOf(h))
    [] h.kind = "SaleCreated" /\ h.pc = "tokenRead" ->
         (\A g \in inflight' : g.id # h.id) => maybeSingle(tokenData, addressLower(h)) # <<>>
    [] h.kind = "SaleCreated" /\ h.pc = "tokenInsert" ->
         tokenData' # tokenData \/ UniqueViolation(tokenData, emptyTokenData(h))
    [] h.kind = "SaleLaunched" ->
         news' = news => setLaunched(news, addressLower(h)) = news
    [] h.kind = "MetaUpdated" ->
         news' = news => setMetadata(news, addressLower(h), h.payload) = news
    [] h.kind = "Volume" /\ h.pc = "read" ->
         \E g \in inflight' : g.id = h.id
    [] h.kind = "Volume" /\ h.pc = "write" ->
         \/ applied' # applied
         \/ h.existing = <<>> /\ UniqueViolation(tokenData, firstTokenData(indexer, h))
    [] h.kind = "Comment" /\ h.pc = "news" ->
         (\A g \in inflight' : g.id # h.id) => maybeSingle(news, addressLower(h)) = <<>>
    [] h.kind = "Comment" /\ h.pc = "comments" ->
         (\A g \in inflight' : g.id # h.id) => commentsOf(comments, addressLower(h)) = <<>>
    [] h.kind = "Comment" /\ h.pc = "update" ->
         (news' = news /\ ranked' = ranked) =>
           /\ setBestComments(news, h.addr, bestCommentsPayload(h.existing[1])) = news
           /\ ranked[addressLower(h)] = bestCommentsPayload(h.existing[1])
    [] OTHER -> TRUE

(***************************************************************************)
(* RaceSpec: SaleCreated events delivered concurrently, to a store that    *)
(* answers.                                                                *)
(***************************************************************************)
RaceStep(h) ==
  \/ insertNewsSelect(h)
  \/ insertNewsInsert(h)
  \/ insertTokenDataSelect(h)
  \/ insertTokenDataInsert(h)

RaceNext ==
  \/ OnSaleCreated(MaxRaceEvents) /\ UNCHANGED delivered
  \/ \E h \in inflight : RaceStep(h) /\ StoreAnswers(h)

RaceSpec == Init /\ [][RaceNext]_vars

(***************************************************************************)
(* OrderSpec: SaleCreated, SaleLaunched and MetaUpdated events handled to  *)
(* completion one after another, in any order, by a store that answers;    *)
(* the events delivered are put on record.                                 *)
(***************************************************************************)
\* the event of the callback that the step has started
Arrived ==
  LET g == CHOOSE g \in inflight' \ inflight : TRUE
  IN  [kind |-> g.kind, addr |-> addressLower(g)]

OrderEvent ==
  \/ OnSaleCreated(MaxOrderEvents)
  \/ OnSaleLaunched(MaxOrderEvents)
  \/ OnMetaUpdated(MaxOrderEvents)

OrderStep(h) ==
  \/ insertNewsSelect(h)
  \/ insertNewsInsert(h)
  \/ insertTokenDataSelect(h)
  \/ insertTokenDataInsert(h)
  \/ updateNewsIsLaunched(h)
  \/ updateNewsMetadata(h)

OrderNext ==
  \/ inflight = {} /\ OrderEvent /\ delivered' = delivered (+) SetToBag({Arrived})
  \/ \E h \in inflight : OrderStep(h) /\ StoreAnswers(h)

OrderSpec == Init /\ [][OrderNext]_vars

(***************************************************************************)
(* PassSpec: copy 1 of the indexer with a News row of one contract in the  *)
(* store; comment inserts, SaleLaunched and MetaUpdated events delivered   *)
(* concurrently and put on record.  The store answers every call, and      *)
(* every balance lookup returns the balance the wallet holds, which stays. *)
(***************************************************************************)
\* the contract whose News row the store holds, as the event carries it
ListedAddress == <<"0", "x", "A">>

\* the News table after SaleCreated has been handled for the contract
ListedNews ==
  << NewsRow(toLowerCase(ListedAddress), NatText(1), <<"name", CreatedPayload>>,
             <<"description", CreatedPayload>>, <<"logoUrl", CreatedPayload>>) >>

\* what the wallets hold: nothing, some and more, or two of them the same
HeldBalances ==
  { [w1 |-> Balance(0), w2 |-> Balance(1), w3 |-> Balance(2)],
    [w1 |-> Balance(1), w2 |-> Balance(1), w3 |-> Balance(2)] }

PassInit ==
  /\ FixIdle
  /\ allComments = <<>>
  /\ saleContract \in HeldBalances
  /\ bestComment = NullComment
  /\ rankStage = "list"
  /\ indexer = 1
  /\ now = 1
  /\ news = ListedNews
  /\ tokenData = << TokenDataRow(toLowerCase(ListedAddress), NumV(Int2Num(0)), <<>>) >>
  /\ inflight = {}
  /\ events = 0
  /\ applied = [a \in Canonical |-> <<>>]
  /\ sweep = SweepIdle
  /\ sweepLog = [prev |-> <<>>, cur |-> <<>>]
  /\ delivered = EmptyBag
  /\ pump = PumpIdle
  /\ comments = <<>>
  /\ ranked = [a \in Canonical |-> <<>>]

PassEvent ==
  \/ OnCommentInserted(MaxPassEvents)
  \/ OnSaleLaunched(MaxPassEvents)
  \/ OnMetaUpdated(MaxPassEvents)

PassStep(h) ==
  \/ updateNewsIsLaunched(h)
  \/ updateNewsMetadata(h)
  \/ commentNewsSelect(h)
  \/ commentsSelect(h)
  \/ /\ h.kind = "Comment" /\ h.pc = "rank"
     /\ commentRankWith(h, [w \in walletsOf(h.existing) |-> saleContract[w]])
  \/ updateBestComments(h)

PassNext ==
  \/ PassEvent /\ delivered' = delivered (+) SetToBag({Arrived})
  \/ \E h \in inflight : PassStep(h) /\ StoreAnswers(h)

PassSpec == PassInit /\ [][PassNext]_vars

(***************************************************************************)
(* FieldSpec: as PassSpec, with the insert of one comment only: one        *)
(* ranking pass, concurrent with SaleLaunched and MetaUpdated callbacks.   *)
(***************************************************************************)
FieldEvent ==
  \/ comments = <<>> /\ OnCommentInserted(MaxFieldEvents)
  \/ OnSaleLaunched(MaxFieldEvents)
  \/ OnMetaUpdated(MaxFieldEvents)

FieldNext ==
  \/ FieldEvent /\ delivered' = delivered (+) SetToBag({Arrived})
  \/ \E h \in inflight : PassStep(h) /\ StoreAnswers(h)

FieldSpec == PassInit /\ [][FieldNext]_vars

(***************************************************************************)
(* AllSpec: the six contract events and comment inserts, each handled to   *)
(* completion before the next, with store calls and lookups that may fail. *)
(***************************************************************************)
AllEvent ==
  \/ Event(MaxAllEvents)
  \/ OnCommentInserted(MaxAllEvents)

AllStep(h) ==
  \/ Step(h)
  \/ commentNewsSelect(h)
  \/ commentsSelect(h)
  \/ commentRank(h)
  \/ updateBestComments(h)

AllNext ==
  \/ inflight = {} /\ AllEvent /\ UNCHANGED delivered
  \/ \E h \in inflight : AllStep(h)

AllSpec == Init /\ [][AllNext]_vars

(***************************************************************************)
(* pump.ts: the buy simulator.  A timer starts simulateRandomBuy every     *)
(* second, whether or not the calls before have returned.  The model       *)
(* follows processCount and, per call, which of its three awaits it is     *)
(* at; what the awaited calls write to the store is left out.              *)
(***************************************************************************)
\* processCount > 10000
MaintenanceThreshold == 10000

\* a step of the simulator changes nothing of the indexer
PumpFrame ==
  /\ UNCHANGED <<indexer, now, news, tokenData, inflight, events, applied, sweep,
                 sweepLog, delivered, comments, ranked>>
  /\ UNCHANGED fixVars
  /\ UNCHANGED rankVars

\* the calls of simulateRandomBuy that have not returned
UnderWay == pump.update + pump.checkAndFix + pump.replace

\* the setInterval callback: simulateRandomBuy picks a News row and awaits
\* updateTokenDataVolume
simulateRandomBuy ==
  /\ ~pump.exited
  /\ UnderWay < MaxOverlap
  /\ pump' = [pump EXCEPT !.update = @ + 1]
  /\ PumpFrame

\* if (processCount > 10000)
startsMaintenance(count) == count > MaintenanceThreshold

\* updateTokenDataVolume returns: processCount++, and past the threshold the
\* call goes on to await checkAndFixAllTokenData
updateReturns ==
  /\ pump.update > 0
  /\ pump' =
       IF startsMaintenance(pump.processCount + 1)
       THEN [pump EXCEPT !.processCount = @ + 1, !.update = @ - 1,
                         !.checkAndFix = @ + 1]
       ELSE [pump EXCEPT !.processCount = @ + 1, !.update = @ - 1]
  /\ PumpFrame

\* checkAndFixAllTokenData returns: the call awaits replaceVolumeHistory
checkAndFixReturns ==
  /\ pump.checkAndFix > 0
  /\ pump' = [pump EXCEPT !.checkAndFix = @ - 1, !.replace = @ + 1]
  /\ PumpFrame

\* replaceVolumeHistory returns and processCount = 0; or it finds no News
\* row (none there, or the select failed), or catches a throw, and ends
\* the process
replaceReturns ==
  /\ pump.replace > 0
  /\ \E ok \in BOOLEAN :
       pump' =
         IF ok
         THEN [pump EXCEPT !.processCount = 0, !.replace = @ - 1]
         ELSE [pump EXCEPT !.update = 0, !.checkAndFix = 0, !.replace = 0,
                           !.exited = TRUE]
  /\ PumpFrame

\* the simulator started, with the counter at the start or just below the
\* threshold after that many buys
PumpInit ==
  /\ FixIdle
  /\ RankIdle
  /\ indexer = 2
  /\ now = 1
  /\ news = ListedNews
  /\ tokenData = <<>>
  /\ inflight = {}
  /\ events = 0
  /\ applied = [a \in Canonical |-> <<>>]
  /\ sweep = SweepIdle
  /\ sweepLog = [prev |-> <<>>, cur |-> <<>>]
  /\ delivered = EmptyBag
  /\ pump \in {[PumpIdle EXCEPT !.processCount = c] : c \in {0, MaintenanceThreshold - 1}}
  /\ comments = <<>>
  /\ ranked = [a \in Canonical |-> <<>>]

PumpNext ==
  \/ simulateRandomBuy
  \/ updateReturns
  \/ checkAndFixReturns
  \/ replaceReturns

PumpSpec == PumpInit /\ [][PumpNext]_vars

(***************************************************************************)
(* SweepSpec: repair sweeps, one after another and with no event between,  *)
(* over a store of two rows whose histories hold malformed samples: up to  *)
(* MaxStored samples in the first row and up to one in the second.         *)
(***************************************************************************)
\* the samples a stored history holds: two that are as they should be, and
\* the text of two amounts run together, a textual volume and time, a volume
\* and a time that parse to no finite number, and a volume of null
StoredSamples ==
  { Item(NumV(Int2Num(1)), NumV(Dec(5, 1))),
    Item(NumV(Int2Num(2)), NumV(Dec(15, 1))),
    Item(NumV(Int2Num(2)), StrV(<<"0", ".", "5", "1", ".", "5">>)),
    Item(StrV(<<"1">>), StrV(<<"1", ".", "5">>)),
    Item(NumV(Int2Num(3)), StrV(InfinityText)),
    Item(StrV(InfinityText), NumV(Dec(5, 1))),
    Item(NumV(Int2Num(2)), NullV) }

RECURSIVE StoredHistories(_)
StoredHistories(n) ==
  IF n = 0 THEN {<<>>}
  ELSE StoredHistories(n - 1)
         \cup {Append(h, x) : h \in {g \in StoredHistories(n - 1) : Len(g) = n - 1},
                              x \in StoredSamples}

\* the row of an address as the volume handlers leave it: the volume is that
\* of the last sample, 0 with no sample
storedRow(address, h) == TokenDataRow(address, newVolumeOf(h), h)

SweepInit ==
  /\ FixIdle
  /\ RankIdle
  /\ indexer = 2
  /\ now = 1
  /\ news = <<>>
  /\ \E ha \in StoredHistories(MaxStored), hb \in StoredHistories(1) :
       tokenData = << storedRow(<<"0", "x", "a">>, ha), storedRow(<<"0", "x", "b">>, hb) >>
  /\ inflight = {}
  /\ events = 0
  /\ applied = [a \in Canonical |-> <<>>]
  /\ sweep = SweepIdle
  /\ sweepLog = [prev |-> <<>>, cur |-> <<>>]
  /\ delivered = EmptyBag
  /\ pump = PumpIdle
  /\ comments = <<>>
  /\ ranked = [a \in Canonical |-> <<>>]

SweepNext == sweepSelect \/ sweepRowLogged

SweepSpec == SweepInit /\ [][SweepNext]_vars

(***************************************************************************)
(* FixSpec: fixVolumeHistory applied to a raw history, then to its result. *)
(***************************************************************************)
\* raw samples of every shape the filter tells apart
RawSamples ==
  { Item(NumV(Int2Num(1)), NumV(Dec(5, 1))),
    Item(NumV(Int2Num(2)), StrV(<<"1", ".", "5">>)),
    Item(NumV(Int2Num(2)), StrV(<<"0", ".", "0", "1", ".", "0", "2">>)),
    Item(NumV(Int2Num(1)), StrV(<<"1", ".", "5", "x">>)),
    Item(NumV(Int2Num(3)), StrV(<<"x">>)),
    Item(NumV(Int2Num(3)), StrV(<<"2", "e", "1">>)),
    Item(NumV(Int2Num(3)), StrV(InfinityText)),
    Item(NumV(Int2Num(2)), NullV),
    Item(NumV(Int2Num(2)), UndefV),
    Item(NumV(Int2Num(2)), BoolV),
    Item(StrV(<<"3">>), NumV(Int2Num(2))),
    Item(StrV(<<"0", ".", "5">>), StrV(<<".", "5">>)),
    Item(StrV(<<"x">>), NumV(Int2Num(2))),
    Item(NullV, NumV(Int2Num(1))),
    Item(UndefV, StrV(<<"1">>)),
    NullItem }

\* what the i-th sample of a long history may be: a numeric sample of time
\* i, a textual one of time MaxLen + 1 - i, or a corrupted one
LongChoices(i) ==
  { Item(NumV(Int2Num(i)), NumV(Int2Num(i))),
    Item(NumV(Int2Num(MaxLen + 1 - i)), StrV(NatText(i) \o <<".", "5">>)),
    Item(NumV(Int2Num(i)), StrV(NatText(i) \o <<".", "7", ".", "2">>)) }

\* the raw histories of FixSpec: up to MaxShort samples of any shape, or up
\* to MaxLen samples of the three long shapes
RawHistory(h) ==
  \/ Len(h) <= MaxShort /\ \A i \in DOMAIN h : h[i] \in RawSamples
  \/ Len(h) <= MaxLen /\ \A i \in DOMAIN h : h[i] \in LongChoices(i)

FixInit ==
  /\ FixIdle
  /\ RankIdle
  /\ indexer = 2
  /\ SysIdle

\* the stored history grows by one raw sample before the repair reads it
GrowRaw ==
  /\ fixStage = "raw"
  /\ \E x \in RawSamples \cup LongChoices(Len(original) + 1) :
       /\ RawHistory(Append(original, x))
       /\ original' = Append(original, x)
  /\ UNCHANGED <<fixed, fixedAgain, fixStage>>
  /\ UNCHANGED sysVars
  /\ UNCHANGED rankVars

ApplyFix ==
  /\ fixStage = "raw"
  /\ fixed' = fixVolumeHistory(original)
  /\ fixStage' = "fixed"
  /\ UNCHANGED <<original, fixedAgain>>
  /\ UNCHANGED sysVars
  /\ UNCHANGED rankVars

ApplyFixAgain ==
  /\ fixStage = "fixed"
  /\ fixedAgain' = fixVolumeHistory(fixed)
  /\ fixStage' = "again"
  /\ UNCHANGED <<original, fixed>>
  /\ UNCHANGED sysVars
  /\ UNCHANGED rankVars

FixNext == GrowRaw \/ ApplyFix \/ ApplyFixAgain

FixSpec == FixInit /\ [][FixNext]_vars

(***************************************************************************)
(* RankSpec: getBestComment applied to a list of comments and a contract.  *)
(***************************************************************************)
RankInit ==
  /\ FixIdle
  /\ indexer = 1
  /\ SysIdle
  /\ allComments = <<>>
  /\ saleContract \in [Wallets -> LookupResults]
  /\ bestComment = NullComment
  /\ rankStage = "list"

\* the list grows by one comment, whose content tells it from the others
GrowComments ==
  /\ rankStage = "list"
  /\ Len(allComments) < MaxComments
  /\ \E w \in Wallets, t \in CreatedAts :
       allComments' =
         Append(allComments, Comment(w, NatText(Len(allComments) + 1), t, FreshAddress))
  /\ UNCHANGED <<saleContract, bestComment, rankStage>>
  /\ UNCHANGED fixVars
  /\ UNCHANGED sysVars

ApplyRank ==
  /\ rankStage = "list"
  /\ bestComment' = getBestComment(allComments, saleContract)
  /\ rankStage' = "ranked"
  /\ UNCHANGED <<allComments, saleContract>>
  /\ UNCHANGED fixVars
  /\ UNCHANGED sysVars

RankNext == GrowComments \/ ApplyRank

RankSpec == RankInit /\ [][RankNext]_vars

(***************************************************************************)
(* Claims about fixVolumeHistory (FixSpec).                                *)
(***************************************************************************)
\* the samples of the raw history that pass the filter, sorted by time
Survivors == sortByTime(filtered(original))

RebuildAll(s) == [i \in 1..Len(s) |-> Rebuild(s[i])]

\* the last n items of s
LastOf(s, n) == SubSeq(s, Len(s) - n + 1, Len(s))

CountIn(s, x) == Cardinality({i \in DOMAIN s : s[i] = x})

\* a raw sample as the repair rules accept it: a volume that is a number, or
\* a text with at most one point that parses, and a time that parses
ValidSample(item) ==
  /\ ~item.nil
  /\ \/ item.volume.k = "num"
     \/ /\ item.volume.k = "str"
        /\ dotsCount(item.volume.s) <= 1
        /\ ~isNaN(parseFloat(item.volume.s))
  /\ \/ item.time.k = "num"
     \/ ~isNaN(parseFloat(StringOf(item.time)))

ValidCount == Cardinality({i \in DOMAIN original : ValidSample(original[i])})

MultiDot(item) == ~item.nil /\ item.volume.k = "str" /\ dotsCount(item.volume.s) > 1

\* how often the rebuilt form x of a valid raw sample occurs in the raw history
ValidOccurrences(x) ==
  Cardinality({i \in DOMAIN original :
                 ValidSample(original[i]) /\ Rebuild(original[i]) = x})

\* C4: fixVolumeHistory is idempotent: applied to its own result it returns
\* that result unchanged.
C4_Idempotent == fixStage = "again" => fixedAgain = fixed

\* C4 witness: a second pass over a result that the first pass had to filter,
\* reorder and truncate.
C4_Witness ==
  /\ fixStage = "again"
  /\ Len(original) > Len(filtered(original))
  /\ Len(fixed) = 7
  /\ filtered(original) # Survivors
  /\ fixedAgain = fixed

StrictlyIncreasing ==
  /\ \A i \in DOMAIN original : ValidSample(original[i])
  /\ \A i, j \in DOMAIN original :
       i < j => NumCmp(TimeNum(original[i]), TimeNum(original[j])) < 0

C7_AtMostFour ==
  fixStage = "fixed" =>
    /\ Len(fixed) <= 4
    /\ Len(Survivors) > 4 => fixed = RebuildAll(LastOf(Survivors, 4))

\* C8: no sample with a textual volume of more than one decimal point gets
\* into the result (every sample of the result is the rebuilt form of a valid
\* raw sample, no more often than valid raw samples have that form), and when
\* at most 4 raw samples are valid each of them is in the result.
C8_MultiDotRemoved ==
  fixStage = "fixed" =>
    /\ \A i \in DOMAIN fixed : CountIn(fixed, fixed[i]) <= ValidOccurrences(fixed[i])
    /\ ValidCount <= 4 =>
         /\ Len(fixed) = ValidCount
         /\ \A i \in DOMAIN original :
              ValidSample(original[i]) =>
                CountIn(fixed, Rebuild(original[i])) = ValidOccurrences(Rebuild(original[i]))

\* C8 witness: a raw history with one sample of two decimal points among
\* valid samples, repaired to exactly the valid ones.
C8_Witness ==
  /\ fixStage = "fixed"
  /\ Cardinality({i \in DOMAIN original : MultiDot(original[i])}) = 1
  /\ ValidCount = 3
  /\ Len(original) = 4
  /\ Len(fixed) = 3

\* C9: the result is sorted ascending by time, and the sort comes before the
\* truncation: every surviving sample later than the first retained one is
\* itself retained.
C9_SortedByTime ==
  fixStage = "fixed" =>
    /\ \A i, j \in DOMAIN fixed :
         i < j => NumCmp(fixed[i].time.n, fixed[j].time.n) <= 0
    /\ Len(fixed) > 0 =>
         Cardinality({i \in DOMAIN original :
                        /\ ValidSample(original[i])
                        /\ NumCmp(TimeNum(original[i]), fixed[1].time.n) > 0})
           <= Len(fixed) - 1

\* C9 witness: three valid samples given in descending time order come out
\* in ascending order.
C9_Witness ==
  /\ fixStage = "fixed"
  /\ Len(original) = 3
  /\ \A i \in DOMAIN original : ValidSample(original[i])
  /\ \A i, j \in DOMAIN original :
       i < j => NumCmp(TimeNum(original[i]), TimeNum(original[j])) > 0
  /\ fixed = RebuildAll(<<original[3], original[2], original[1]>>)

(***************************************************************************)
(* Claims about the event handlers and the repair sweep.                   *)
(***************************************************************************)
\* the rows of a table that belong to the contract of canonical address a
RowsOf(table, a) == {i \in DOMAIN table : toLowerCase(table[i].onchainAddress) = a}

\* the value in ether of an amount in the model's unit of account
EtherValue(amount) == Dec(amount, EtherDecimals)

\* C1: after n volume events handled one after another on a fresh address
\* the stored history has exactly n samples, the i-th holding the time and
\* the volume of the i-th event applied (duplicates kept, nothing reordered
\* or truncated), and the stored volume is the volume of the last event.
C1_AppendPath ==
  \A a \in Canonical :
    IF applied[a] = <<>>
    THEN \A i \in RowsOf(tokenData, a) : tokenData[i].volumeHistory = <<>>
    ELSE /\ Cardinality(RowsOf(tokenData, a)) = 1
         /\ \A r \in RowsOf(tokenData, a) :
              /\ Len(tokenData[r].volumeHistory) = Len(applied[a])
              /\ \A i \in DOMAIN applied[a] :
                   /\ ~tokenData[r].volumeHistory[i].nil
                   /\ TimeNum(tokenData[r].volumeHistory[i]) = Int2Num(applied[a][i].ts)
                   /\ VolumeNum(tokenData[r].volumeHistory[i])
                        = EtherValue(applied[a][i].amount)
              /\ tokenData[r].volume =
                   tokenData[r].volumeHistory[Len(applied[a])].volume

\* C1 witness: seven volume events applied to one address, the first two
\* alike in time and amount, the third of another amount, all seven stored
\* (the repair would have kept fewer of five samples or more).
C1_Witness ==
  /\ inflight = {}
  /\ \E a \in Canonical :
       /\ Len(applied[a]) = 7
       /\ applied[a][1] = applied[a][2]
       /\ applied[a][3].amount # applied[a][2].amount
       /\ \E r \in RowsOf(tokenData, a) : Len(tokenData[r].volumeHistory) = 7

\* C2: in every reachable state each TokenData row's volume is the volume of
\* the last sample of its history, or 0 when the history is empty.
C2_VolumeIsLastSample ==
  \A r \in DOMAIN tokenData :
    tokenData[r].volume =
      IF tokenData[r].volumeHistory = <<>> THEN NumV(Int2Num(0))
      ELSE tokenData[r].volumeHistory[Len(tokenData[r].volumeHistory)].volume

\* C2 witness: a repair sweep has rewritten a row that volume handlers
\* wrote: the row holds two samples of different volumes that the sweep put
\* in time order, against the order the handlers wrote them in.
C2_Witness ==
  \E r \in DOMAIN tokenData :
    /\ Len(tokenData[r].volumeHistory) = 2
    /\ tokenData[r].volumeHistory[1].volume # tokenData[r].volumeHistory[2].volume
    /\ Len(applied[tokenData[r].onchainAddress]) = 2
    /\ TimeNum(tokenData[r].volumeHistory[1])
         = Int2Num(applied[tokenData[r].onchainAddress][2].ts)
    /\ TimeNum(tokenData[r].volumeHistory[2])
         = Int2Num(applied[tokenData[r].onchainAddress][1].ts)
    /\ applied[tokenData[r].onchainAddress][1].ts
         > applied[tokenData[r].onchainAddress][2].ts

\* C3: the write of a volume handler stores the history the handler read
\* with its own sample appended, whatever the row holds at the time of the
\* write: there is no mutual exclusion and no conditional update, so a
\* sample another handler appended between the read and the write is lost.
C3_WriteFromSnapshot ==
  [][\A h \in inflight :
       ( /\ h.kind = "Volume" /\ h.pc = "write" /\ h.existing # <<>>
         /\ inflight' = inflight \ {h}
         /\ applied' = [applied EXCEPT ![addressLower(h)] =
                          Append(@, [ts |-> h.ts, amount |-> h.amount])] )
       => /\ RowsOf(tokenData', addressLower(h)) # {}
          /\ \A r \in RowsOf(tokenData', addressLower(h)) :
               tokenData'[r].volumeHistory =
                 Append(h.existing[1].volumeHistory, sampleOf(indexer, h))]_vars

\* C3 witness: two volume handlers of one address have both written
\* without error, no callback is in flight, and the stored history holds
\* the sample of the later write only.  (Copy 2 of the indexer: the sweep
\* rewrites none of its histories of one sample.)
C3_Witness ==
  /\ indexer = 2
  /\ inflight = {}
  /\ \E r \in DOMAIN tokenData :
       /\ Len(applied[tokenData[r].onchainAddress]) = 2
       /\ applied[tokenData[r].onchainAddress][1]
            # applied[tokenData[r].onchainAddress][2]
       /\ Len(tokenData[r].volumeHistory) = 1
       /\ TimeNum(tokenData[r].volumeHistory[1])
            = Int2Num(applied[tokenData[r].onchainAddress][2].ts)
       /\ VolumeNum(tokenData[r].volumeHistory[1])
            = EtherValue(applied[tokenData[r].onchainAddress][2].amount)

\* C10: SaleCreated handled any number of times in succession for one
\* address leaves exactly one News record of the address, and a call that
\* finds the record is a no-op: no step of it changes the News table, so the
\* record keeps its title, description, imageUrl, date and isLaunched.
C10_OneRecordNoOp ==
  /\ [](\A a \in Canonical : Cardinality(RowsOf(news, a)) <= 1)
  /\ [](\A h \in inflight :
          (h.kind = "SaleCreated" /\ h.pc \in {"tokenRead", "tokenInsert"} /\ ~h.failed)
            => Cardinality(RowsOf(news, addressLower(h))) = 1)
  /\ [][\A h \in inflight :
          (h.kind = "SaleCreated" /\ RowsOf(news, addressLower(h)) # {})
            => news' = news]_vars

\* C10 witness: a SaleCreated call has found the record of an address that
\* SaleLaunched and MetaUpdated changed after the first SaleCreated, and
\* the record still holds what they wrote.
C10_Witness ==
  \E h \in inflight :
    /\ h.kind = "SaleCreated" /\ h.pc = "tokenRead" /\ ~h.failed
    /\ events = 4
    /\ \E r \in RowsOf(news, addressLower(h)) :
         /\ news[r].isLaunched
         /\ news[r].description = <<"description", UpdatedPayload>>
         /\ news[r].title = <<"name", CreatedPayload>>

(***************************************************************************)
(* Claims about getBestComment (RankSpec).                                 *)
(***************************************************************************)
\* what the lookup of the i-th comment's wallet answers
ResultOf(i) == saleContract[allComments[i].walletAddress]

AllLookupsSucceed == \A i \in DOMAIN allComments : ResultOf(i).ok

\* the greatest balance a lookup of the list returns, 0 when none returns
GreatestBalance ==
  IF \A i \in DOMAIN allComments : ~ResultOf(i).ok THEN 0
  ELSE CHOOSE b \in Balances :
         /\ \E i \in DOMAIN allComments : ResultOf(i).ok /\ ResultOf(i).balance = b
         /\ \A i \in DOMAIN allComments : ResultOf(i).ok => ResultOf(i).balance <= b

\* the comments whose wallet holds the greatest balance
Top == {i \in DOMAIN allComments : ResultOf(i).ok /\ ResultOf(i).balance = GreatestBalance}

\* the comments of the list whose lookup returns, in the order of the list
RECURSIVE WithoutFailed(_)
WithoutFailed(cs) ==
  IF cs = <<>> THEN <<>>
  ELSE IF saleContract[Head(cs).walletAddress].ok
       THEN <<Head(cs)>> \o WithoutFailed(Tail(cs))
       ELSE WithoutFailed(Tail(cs))

Orders(n) == {p \in [1..n -> 1..n] : \A i, j \in 1..n : p[i] = p[j] => i = j}

DistinctTimes ==
  \A i, j \in DOMAIN allComments :
    i # j => NumCmp(getTime(allComments[i].createdAt), getTime(allComments[j].createdAt)) # 0

C12_LaterWinsTie ==
  (rankStage = "ranked" /\ GreatestBalance > 0 /\ Cardinality(Top) >= 2) =>
    /\ \E i \in Top : bestComment = allComments[i]
    /\ \A i \in Top :
         ~NumGt(getTime(allComments[i].createdAt), getTime(bestComment.createdAt))

\* C12 witness: two comments of two wallets with the same nonzero balance,
\* the earlier one scanned first, and the later one selected.
C12_Witness ==
  /\ rankStage = "ranked"
  /\ Len(allComments) = 2
  /\ allComments[1].walletAddress # allComments[2].walletAddress
  /\ ResultOf(1) = ResultOf(2) /\ ResultOf(1).ok /\ ResultOf(1).balance > 0
  /\ NumGt(getTime(allComments[2].createdAt), getTime(allComments[1].createdAt))
  /\ bestComment = allComments[2]

\* the wallet w of the list holds more than every other wallet of the list
StrictlyGreatest(w) ==
  /\ \E i \in DOMAIN allComments : allComments[i].walletAddress = w
  /\ \A i \in DOMAIN allComments :
       allComments[i].walletAddress # w =>
         saleContract[allComments[i].walletAddress].balance < saleContract[w].balance

\* C13 (as claimed): when every lookup succeeds and one wallet's balance is
\* strictly greater than every other's, a comment of that wallet is returned.
C13_GreatestWins ==
  (rankStage = "ranked" /\ AllLookupsSucceed) =>
    \A w \in Wallets :
      StrictlyGreatest(w) => ~bestComment.nil /\ bestComment.walletAddress = w

\* C13 (amended): when every lookup succeeds and one wallet's balance is
\* nonzero and strictly greater than every other's, a comment of that wallet
\* is returned, wherever it sits in the list; a list whose only wallet holds
\* 0 is ranked to null.
C13_GreatestNonzeroWins ==
  (rankStage = "ranked" /\ AllLookupsSucceed) =>
    \A w \in Wallets :
      StrictlyGreatest(w) =>
        IF saleContract[w].balance > 0
        THEN ~bestComment.nil /\ bestComment.walletAddress = w
        ELSE bestComment.nil

\* C13 witness: three comments of three wallets, the wallet of the second
\* holding the most and the others less but not 0; the second is returned.
C13_Witness ==
  /\ rankStage = "ranked"
  /\ Len(allComments) = 3
  /\ AllLookupsSucceed
  /\ StrictlyGreatest(allComments[2].walletAddress)
  /\ ResultOf(1).balance > 0 /\ ResultOf(3).balance > 0
  /\ ResultOf(1).balance # ResultOf(3).balance
  /\ bestComment = allComments[2]

\* C14: a comment whose lookup fails is never returned, and the scan goes on
\* past it: the result is that of the list without the failed comments.
C14_FailedExcluded ==
  rankStage = "ranked" =>
    /\ ~bestComment.nil => saleContract[bestComment.walletAddress].ok
    /\ bestComment = getBestComment(WithoutFailed(allComments), saleContract)

\* C14 witness: the lookup of the first and the second comment fails and the
\* third comment, scanned after them, is returned.
C14_Witness ==
  /\ rankStage = "ranked"
  /\ Len(allComments) = 3
  /\ ~ResultOf(1).ok /\ ~ResultOf(2).ok
  /\ allComments[1].walletAddress # allComments[2].walletAddress
  /\ bestComment = allComments[3]

\* the list in the order p
Permuted(p) == [i \in 1..Len(allComments) |-> allComments[p[i]]]

\* C15: with the same lookup results and pairwise distinct creation times
\* every permutation of the list has the same best comment.
C15_OrderIndependent ==
  (rankStage = "ranked" /\ DistinctTimes) =>
    \A p \in Orders(Len(allComments)) :
      getBestComment(Permuted(p), saleContract) = bestComment

\* C15 witness: three comments of distinct times, one lookup failing and the
\* two others returning the same nonzero balance; the one returned is not the
\* last of the list.
C15_Witness ==
  /\ rankStage = "ranked"
  /\ Len(allComments) = 3
  /\ DistinctTimes
  /\ Cardinality(Top) = 2 /\ GreatestBalance > 0
  /\ \E i \in DOMAIN allComments : ~ResultOf(i).ok
  /\ ResultOf(3).ok
  /\ ~bestComment.nil
  /\ bestComment # allComments[3]

(***************************************************************************)
(* Claims about the keys, the launch flag and the stored histories.        *)
(***************************************************************************)
\* C16 (as claimed): every store call of the comment listener is keyed by
\* the lowercase address, so the News row of an address holds the
\* best_comments of the last update the store took for that address.
C16_LowercaseKeys ==
  \A a \in Canonical :
    ranked[a] # <<>> =>
      /\ RowsOf(news, a) # {}
      /\ \A r \in RowsOf(news, a) : news[r].best_comments = ranked[a]

\* C17: a News row is created with isLaunched = false; isLaunched becomes
\* true only in a step that ends a SaleLaunched callback of the address, and
\* a row that has it true keeps it true in every step of every callback.
C17_LaunchedMonotone ==
  [][\A a \in Canonical :
       /\ \A r \in RowsOf(news', a) :
            news'[r].isLaunched =>
              \/ r \in RowsOf(news, a) /\ news[r].isLaunched
              \/ /\ r \in RowsOf(news, a)
                 /\ \E h \in inflight :
                      /\ h.kind = "SaleLaunched"
                      /\ addressLower(h) = a
                      /\ inflight' = inflight \ {h}
       /\ \A r \in RowsOf(news, a) :
            news[r].isLaunched => r \in RowsOf(news', a) /\ news'[r].isLaunched]_vars

\* C17 witness: a launched row that a MetaUpdated callback has written after
\* its creation, with every callback of the three events ended.
C17_Witness ==
  /\ inflight = {}
  /\ events = 3
  /\ \E r \in DOMAIN news :
       /\ news[r].isLaunched
       /\ news[r].description = <<"description", UpdatedPayload>>

\* C18 (as claimed): the sweep writes a row only when the stored history is
\* still the one it read, so that no sample appended since is overwritten.
C18_SweepRechecks ==
  [][(sweep.pc = "rows" /\ tokenData' # tokenData /\ inflight' = inflight) =>
       \A r \in DOMAIN tokenData :
         tokenData[r].onchainAddress = sweep.rows[sweep.idx].onchainAddress =>
           tokenData[r].volumeHistory = sweep.rows[sweep.idx].volumeHistory]_vars

\* C19 (as claimed): every stored history is ordered ascending by time.
C19_HistoriesAscending ==
  \A r \in DOMAIN tokenData :
    \A i, j \in DOMAIN tokenData[r].volumeHistory :
      i < j => NumCmp(TimeNum(tokenData[r].volumeHistory[i]),
                      TimeNum(tokenData[r].volumeHistory[j])) <= 0

\* C20 (as claimed): every stored sample has a numeric volume that is not
\* negative and a numeric time that is an integer.
C20_NumericSamples ==
  \A r \in DOMAIN tokenData :
    \A i \in DOMAIN tokenData[r].volumeHistory :
      /\ ~tokenData[r].volumeHistory[i].nil
      /\ tokenData[r].volumeHistory[i].volume.k = "num"
      /\ tokenData[r].volumeHistory[i].volume.n.c = "fin"
      /\ tokenData[r].volumeHistory[i].volume.n.m >= 0
      /\ tokenData[r].volumeHistory[i].time.k = "num"
      /\ tokenData[r].volumeHistory[i].time.n.c = "fin"
      /\ tokenData[r].volumeHistory[i].time.n.e = 0

(***************************************************************************)
(* Claims about the filter of fixVolumeHistory and the repair sweep.       *)
(***************************************************************************)
\* a value is a number: a number of the JSON, which is never NaN
IsNumber(v) == v.k = "num" /\ ~isNaN(v.n)

\* C21: the filter keeps a sample if and only if its volume is not null and
\* is a number or a text of at most one decimal point that parses to a
\* number, and its time is a number or parses to one (a number being any
\* value but NaN); the others are dropped, whatever they hold, and every
\* sample of the result has a number as its time and as its volume.
C21_FilterKeepsValid ==
  fixStage = "fixed" =>
    /\ filtered(original) = SelectSeq(original, ValidSample)
    /\ \A i \in DOMAIN fixed :
         ~fixed[i].nil /\ IsNumber(fixed[i].time) /\ IsNumber(fixed[i].volume)
    /\ Len(fixed) <= Len(SelectSeq(original, ValidSample))

\* C21 witness: of two raw samples the one with a textual time and a textual
\* volume is kept, as numbers, and the one whose time is no number is dropped.
C21_Witness ==
  /\ fixStage = "fixed"
  /\ Len(original) = 2
  /\ \E i \in DOMAIN original :
       /\ original[i].time.k = "str" /\ original[i].volume.k = "num"
       /\ ~ValidSample(original[i])
  /\ \E i \in DOMAIN original :
       /\ original[i].time.k = "str" /\ original[i].volume.k = "str"
       /\ fixed = <<Item(NumV(TimeNum(original[i])), NumV(VolumeNum(original[i])))>>

\* the row a turn of the sweep is about, as the store holds it
SweptRows == {r \in DOMAIN tokenData :
                tokenData[r].onchainAddress = sweep.rows[sweep.idx].onchainAddress}

\* C22: a step of the sweep that changes the store changes one row, and
\* writes its history and its volume in that one step: the history is the
\* repaired one, and the volume is the volume of the last sample of the
\* history written, or 0 when the history written is empty.
C22_WritesBoth ==
  [][(sweep.pc = "rows" /\ tokenData' # tokenData) =>
       /\ DOMAIN tokenData' = DOMAIN tokenData
       /\ \A r \in DOMAIN tokenData \ SweptRows : tokenData'[r] = tokenData[r]
       /\ \A r \in SweptRows :
            /\ tokenData'[r].volumeHistory # tokenData[r].volumeHistory
            /\ tokenData'[r].volumeHistory =
                 JsonHistory(fixVolumeHistory(tokenData[r].volumeHistory))
            /\ tokenData'[r].volume =
                 IF tokenData'[r].volumeHistory = <<>> THEN NumV(Int2Num(0))
                 ELSE tokenData'[r].volumeHistory[Len(tokenData'[r].volumeHistory)].volume]_vars

\* C22 witness: a sweep has written both rows; the first holds fewer
\* samples than before, its volume being that of the last one, and no sample
\* of the second survived, its volume being 0.
C22_Witness ==
  /\ sweepLog.prev = <<"written", "written">>
  /\ Len(tokenData[1].volumeHistory) = 1
  /\ tokenData[1].volume = tokenData[1].volumeHistory[1].volume
  /\ tokenData[1].volume.k = "num" /\ tokenData[1].volume.n = Dec(5, 1)
  /\ tokenData[2].volumeHistory = <<>>
  /\ tokenData[2].volume = NumV(Int2Num(0))

\* every row of a record of the sweep has the outcome o
AllOutcomes(record, o) == \A i \in DOMAIN record : record[i] = o

\* the last sweep that ended took every row, with no update refused
SweepCompleted == sweepLog.prev # <<>> /\ \A i \in DOMAIN sweepLog.prev : sweepLog.prev[i] # "failed"

StepOutcome ==
  IF sweepLog' = sweepLog THEN ""
  ELSE IF sweepLog'.cur # <<>> THEN sweepLog'.cur[Len(sweepLog'.cur)]
  ELSE sweepLog'.prev[Len(sweepLog'.prev)]

\* C24: a turn of the sweep whose update is refused leaves the store as it
\* was and the loop goes on with the next row fetched; every row fetched gets
\* its turn, whatever became of the rows before it, so a sweep that ends has
\* an outcome for each row of the table.
C24_FailureIsolated ==
  /\ [][StepOutcome = "failed" =>
          /\ tokenData' = tokenData
          /\ sweep.idx < Len(sweep.rows) =>
               sweep' = [sweep EXCEPT !.idx = sweep.idx + 1]]_vars
  /\ [](sweep.pc = "rows" => Len(sweepLog.cur) = sweep.idx - 1)
  /\ [](sweepLog.prev # <<>> => Len(sweepLog.prev) = Len(tokenData))
  /\ [][StepOutcome = "written" =>
          \A r \in SweptRows :
            tokenData'[r].volumeHistory =
              JsonHistory(fixVolumeHistory(sweep.rows[sweep.idx].volumeHistory))]_vars

\* C24 witness: a sweep has ended in which the update of the first row was
\* refused and that of the second was taken: the first row still holds the
\* sample that is to be dropped, and the second row is repaired.
C24_Witness ==
  /\ sweepLog.prev = <<"failed", "written">>
  /\ sweep.pc = "idle"
  /\ ~noChanges(tokenData[1])
  /\ Len(filtered(tokenData[1].volumeHistory)) < Len(tokenData[1].volumeHistory)
  /\ noChanges(tokenData[2])

(***************************************************************************)
(* Claims about failed reads and about events for rows that exist or not.  *)
(***************************************************************************)
\* the callback h is in flight no more after the step
Ended(h) == \A g \in inflight' : g.id # h.id

\* C25 (as claimed): a volume callback or a SaleCreated callback whose store
\* read failed issues no write: the store stays as it is until the callback
\* has ended (one callback being handled at a time).
C25_FailedReadNoWrite ==
  [][\A h \in inflight :
       /\ (h.kind = "Volume" /\ h.pc = "read" /\ Ended(h)) => storeVars' = storeVars
       /\ (h.kind = "SaleCreated" /\ h.readFailed) => storeVars' = storeVars]_vars

\* C25 (amended): a failed read ends the function it belongs to, with no
\* write of that function and no second try.  A volume callback ends at its
\* failed read.  A SaleCreated callback whose read of News failed never
\* writes News and goes on to the TokenData table, where it may still insert
\* the row of the address; a failed read of TokenData ends it with no write.
C25_FailedReadEndsItsInsert ==
  /\ [][\A h \in inflight :
          /\ (h.kind = "Volume" /\ h.pc = "read" /\ Ended(h)) => storeVars' = storeVars
          /\ (h.kind = "SaleCreated" /\ h.pc = "tokenRead" /\ Ended(h))
               => storeVars' = storeVars
          /\ (h.kind = "SaleCreated" /\ h.readFailed) =>
               /\ news' = news
               /\ \A r \in DOMAIN tokenData : tokenData'[r] = tokenData[r]
               /\ \A r \in DOMAIN tokenData' \ DOMAIN tokenData :
                    tokenData'[r] = TokenDataRow(addressLower(h), NumV(Int2Num(0)), <<>>)]_vars
  /\ [](\A h \in inflight :
          h.readFailed => h.kind = "SaleCreated" /\ h.pc \in {"tokenRead", "tokenInsert"})

\* C25 witness: the second event is a SaleCreated whose read of News failed;
\* its read of TokenData found no row, and the callback is about to insert
\* the TokenData row of an address that has no News row.
C25_Witness ==
  \E h \in inflight :
    /\ h.kind = "SaleCreated" /\ h.readFailed /\ h.pc = "tokenInsert"
    /\ events = 2
    /\ RowsOf(news, addressLower(h)) = {}
    /\ RowsOf(tokenData, addressLower(h)) = {}
    /\ tokenData # <<>>

\* the step is one of the callback h
StepOf(h) == h \notin inflight'

\* C26: a step of a SaleCreated callback leaves every TokenData row there is
\* as it is, history and volume; it adds a row only for an address that has
\* none, and the row added has an empty history and the volume 0.
C26_CreatesOnlyWhenNone ==
  [][\A h \in inflight :
       (h.kind = "SaleCreated" /\ StepOf(h)) =>
         /\ \A r \in DOMAIN tokenData : tokenData'[r] = tokenData[r]
         /\ tokenData' # tokenData =>
              /\ RowsOf(tokenData, addressLower(h)) = {}
              /\ tokenData' =
                   Append(tokenData,
                          TokenDataRow(addressLower(h), NumV(Int2Num(0)), <<>>))]_vars

\* C26 witness: a volume event made the TokenData row of an address, then
\* SaleCreated was handled for the address (its News row has the time of the
\* volume event), and the row still holds the sample and its volume.
C26_Witness ==
  /\ inflight = {}
  /\ events = 2
  /\ \E a \in Canonical :
       /\ Len(applied[a]) = 1
       /\ applied[a][1].ts = 2
       /\ \E n \in RowsOf(news, a) : news[n].date = NatText(2)
       /\ \E r \in RowsOf(tokenData, a) :
            /\ Len(tokenData[r].volumeHistory) = 1
            /\ VolumeNum(tokenData[r].volumeHistory[1]) = EtherValue(applied[a][1].amount)
            /\ tokenData[r].volume = tokenData[r].volumeHistory[1].volume

\* C27: a step of a SaleLaunched or MetaUpdated callback for an address
\* that has no News row leaves both tables as they are: no row is made.
C27_NoRecordNoOp ==
  [][\A h \in inflight :
       ( /\ h.kind \in {"SaleLaunched", "MetaUpdated"}
         /\ StepOf(h)
         /\ RowsOf(news, addressLower(h)) = {} )
       => storeVars' = storeVars]_vars

\* C27 witness: SaleCreated has been handled for one address, whose News
\* row is there; the third event is a MetaUpdated for the other address,
\* which has no News row, and its update is on its way to the store.
C27_Witness ==
  \E h \in inflight :
    /\ h.kind = "MetaUpdated" /\ h.pc = "update"
    /\ events = 3
    /\ RowsOf(news, addressLower(h)) = {}
    /\ Len(news) = 1
    /\ tokenData # <<>>

\* C28: a step of a MetaUpdated callback leaves TokenData as it is and
\* changes in News at most the imageUrl and the description of the row of its
\* address, to the logoUrl and the description of the event; the title, the
\* date, isLaunched and best_comments of every row stay.  A Claimed event (the
\* one event that starts no store call) changes no table.
C28_MetaUpdatedFrame ==
  [][/\ \A h \in inflight :
          (h.kind = "MetaUpdated" /\ StepOf(h)) =>
            /\ tokenData' = tokenData
            /\ comments' = comments
            /\ DOMAIN news' = DOMAIN news
            /\ \A r \in DOMAIN news :
                 /\ news'[r].onchainAddress = news[r].onchainAddress
                 /\ news'[r].title = news[r].title
                 /\ news'[r].date = news[r].date
                 /\ news'[r].isLaunched = news[r].isLaunched
                 /\ news'[r].best_comments = news[r].best_comments
                 /\ \/ news'[r] = news[r]
                    \/ /\ news[r].onchainAddress = addressLower(h)
                       /\ news'[r].imageUrl = <<"logoUrl", h.payload>>
                       /\ news'[r].description = <<"description", h.payload>>
     /\ (events' # events /\ inflight' = inflight) =>
          /\ storeVars' = storeVars
          /\ comments' = comments]_vars

\* C28 witness: a News row that holds a best comment, its first title and
\* the description and the imageUrl of a MetaUpdated event.
C28_Witness ==
  /\ inflight = {}
  /\ events = 3
  /\ \E r \in DOMAIN news :
       /\ news[r].best_comments # <<>>
       /\ news[r].title = <<"name", CreatedPayload>>
       /\ news[r].description = <<"description", UpdatedPayload>>
       /\ news[r].imageUrl = <<"logoUrl", UpdatedPayload>>

(***************************************************************************)
(* Claims about the comment listener.                                      *)
(***************************************************************************)
\* C29: the callback of a comment insert ends at its select of News when
\* the address has no News row, and at its select of the comments when it
\* finds none, in both cases with the store left as it is; a callback gets to
\* its update only with a News row and comments found.
C29_NoNewsNoCommentsNoWrite ==
  /\ [][\A h \in inflight :
          (h.kind = "Comment" /\ StepOf(h)) =>
            /\ (h.pc = "news" /\ RowsOf(news, addressLower(h)) = {})
                 => (Ended(h) /\ storeVars' = storeVars)
            /\ (h.pc = "comments" /\ commentsOf(comments, addressLower(h)) = <<>>)
                 => (Ended(h) /\ storeVars' = storeVars)
            /\ h.pc # "update" => storeVars' = storeVars
            /\ comments' = comments]_vars
  /\ [](\A h \in inflight :
          h.kind = "Comment" =>
            /\ h.pc \in {"comments", "rank", "update"}
                 => RowsOf(news, addressLower(h)) # {}
            /\ h.pc \in {"rank", "update"}
                 => commentsOf(comments, addressLower(h)) # <<>>)

\* C29 witness: the second event was the insert of a comment whose newsId
\* is not in lower case; the address has a News row, the select by the
\* lowercased newsId finds no comment, and the callback has ended with
\* best_comments as it was.
C29_Witness ==
  /\ inflight = {}
  /\ events = 2
  /\ Len(news) = 1
  /\ Len(comments) = 1
  /\ toLowerCase(comments[1].newsId) = news[1].onchainAddress
  /\ commentsOf(comments, news[1].onchainAddress) = <<>>
  /\ news[1].best_comments = <<>>

\* the one entry built from the content and the wallet of a comment
EntryOf(comment) ==
  << [ content |-> comment.content, walletAddress |-> comment.walletAddress,
       position |-> "default" ] >>

\* C30 (as claimed): when the ranking of a callback has selected a winner
\* and the store takes the update, the best_comments of the News row of the
\* contract is, whatever it was, the one entry built from the winner, and no
\* other field of a News row changes.
C30_ReplacedWholesale ==
  [][\A h \in inflight :
       ( /\ h.kind = "Comment" /\ h.pc = "update" /\ StepOf(h)
         /\ ranked' # ranked )
       => /\ DOMAIN news' = DOMAIN news
          /\ \A r \in DOMAIN news :
               news'[r] =
                 IF r \in RowsOf(news, addressLower(h))
                 THEN [news[r] EXCEPT !.best_comments = EntryOf(h.existing[1])]
                 ELSE news[r]]_vars

Delivered(kind, a) == CopiesIn([kind |-> kind, addr |-> a], delivered)

\* C32 (as claimed): once one SaleCreated and one SaleLaunched event of an
\* address have been handled to completion, in whichever order and with the
\* store answering every call, the News row of the address is there and has
\* isLaunched = true.
C32_LaunchedEitherOrder ==
  \A a \in Canonical :
    ( /\ inflight = {}
      /\ Delivered("SaleCreated", a) = 1
      /\ Delivered("SaleLaunched", a) = 1 )
    => /\ RowsOf(news, a) # {}
       /\ \A r \in RowsOf(news, a) : news[r].isLaunched

\* the best_comments that the selection rule gives for the comments the
\* table holds for the address a, with the balances the wallets hold
WinnerOf(a) ==
  getBestComment(orderByCreatedAtDesc(commentsOf(comments, a)), saleContract)

\* C33 (as claimed): once every callback of the comment inserts of a
\* contract has ended (every newsId in lower case, the balances fixed, no
\* lookup and no store call failing), the best_comments of the News row is
\* the entry of the winner of the selection rule over all the comments of
\* the contract: no callback that fetched an older list of comments has
\* overwritten the result of one that fetched a newer list.
C33_BestOfAllComments ==
  \A a \in Canonical :
    ( /\ inflight = {}
      /\ \A i \in DOMAIN comments : comments[i].newsId = a )
    => \A r \in RowsOf(news, a) :
         news[r].best_comments =
           IF WinnerOf(a).nil THEN <<>> ELSE EntryOf(WinnerOf(a))

\* the orders in which the events delivered can be handled one after another
Schedules ==
  { s \in [1..BagCardinality(delivered) -> BagToSet(delivered)] :
      \A e \in BagToSet(delivered) :
        Cardinality({i \in DOMAIN s : s[i] = e}) = CopiesIn(e, delivered) }

\* the News table after the ranking pass of the one comment there is has run
\* from its start to its end on the table t
RankedAlone(t) ==
  IF \/ maybeSingle(t, toLowerCase(comments[1].newsId)) = <<>>
     \/ commentsOf(comments, toLowerCase(comments[1].newsId)) = <<>>
     \/ WinnerOf(toLowerCase(comments[1].newsId)).nil
  THEN t
  ELSE setBestComments(t, comments[1].newsId,
                       bestCommentsPayload(WinnerOf(toLowerCase(comments[1].newsId))))

\* the News table after the callback of the event e has run alone on t
HandledAlone(e, t) ==
  CASE e.kind = "SaleLaunched" -> setLaunched(t, e.addr)
    [] e.kind = "MetaUpdated" -> setMetadata(t, e.addr, UpdatedPayload)
    [] e.kind = "Comment" -> RankedAlone(t)

\* the News table after the callbacks of s[i], s[i + 1], ... have run on t,
\* each to its end before the next starts
RECURSIVE HandledInTurn(_, _, _)
HandledInTurn(s, i, t) ==
  IF i > Len(s) THEN t ELSE HandledInTurn(s, i + 1, HandledAlone(s[i], t))

\* C34: a step of the callback of a comment insert changes no field of a
\* News row but best_comments, and a step of a SaleLaunched or MetaUpdated
\* callback leaves best_comments as it is; so when a ranking pass and
\* SaleLaunched and MetaUpdated callbacks have run interleaved in any way
\* and all have ended, the News table is the one that handling the same
\* events one after another gives, in whichever order.
C34_DisjointFields ==
  /\ [][\A h \in inflight :
          StepOf(h) =>
            /\ DOMAIN news' = DOMAIN news
            /\ \A r \in DOMAIN news :
                 IF h.kind = "Comment"
                 THEN news'[r] = [news[r] EXCEPT !.best_comments = news'[r].best_comments]
                 ELSE news'[r].best_comments = news[r].best_comments]_vars
  /\ [](inflight = {} =>
          \A s \in Schedules : news = HandledInTurn(s, 1, ListedNews))

\* C34 witness: the ranking pass of a comment is about to write its winner
\* while a MetaUpdated callback of the contract is under way and after a
\* SaleLaunched callback has written the row.
C34_Witness ==
  \E h, g \in inflight :
    /\ h.kind = "Comment" /\ h.pc = "update" /\ h.addr = toLowerCase(ListedAddress)
    /\ g.kind = "MetaUpdated" /\ g.addr = ListedAddress
    /\ news[1].isLaunched
    /\ news[1].best_comments = <<>>

(***************************************************************************)
(* Claims about the rows of other contracts.                               *)
(***************************************************************************)
\* the step leaves every row of the table that is not of the address a as
\* it is, and every row it adds is of the address a
OthersKept(table, after, a) ==
  /\ \A r \in DOMAIN table :
       toLowerCase(table[r].onchainAddress) # a
         => r \in DOMAIN after /\ after[r] = table[r]
  /\ \A r \in DOMAIN after \ DOMAIN table : toLowerCase(after[r].onchainAddress) = a

\* C35: every step of the callback of an event or of a comment insert for
\* a contract leaves the News rows and the TokenData rows of every other
\* canonical address as they are and adds no row for another address; the
\* arrival of an event, and a Claimed event, change no table.
C35_OtherAddressesKept ==
  [][/\ \A h \in inflight :
          StepOf(h) =>
            /\ OthersKept(news, news', addressLower(h))
            /\ OthersKept(tokenData, tokenData', addressLower(h))
     /\ events' # events => storeVars' = storeVars]_vars

\* C35 witness: the store holds the News rows of two contracts, and the
\* callback of a comment insert for one of them, with a newsId in lower
\* case, is about to update best_comments.
C35_Witness ==
  \E h \in inflight :
    /\ h.kind = "Comment" /\ h.pc = "update" /\ h.addr = addressLower(h)
    /\ RowsOf(news, addressLower(h)) # {}
    /\ \E a \in Canonical \ {addressLower(h)} :
         RowsOf(news, a) # {} /\ RowsOf(tokenData, a) # {}

(***************************************************************************)
(* Claims about the buy simulator.                                         *)
(***************************************************************************)
\* the maintenance runs in progress: the calls awaiting the repair sweep or
\* the replacement of the histories
MaintenanceRuns == pump.checkAndFix + pump.replace

\* C36 (as claimed): a maintenance run starts only with processCount above
\* the threshold, processCount is 0 when a run has ended, and no more than
\* one run is in progress at any time, also when calls of simulateRandomBuy
\* overlap while a run is awaiting.
C36_OneMaintenanceRun ==
  /\ [][/\ pump'.checkAndFix > pump.checkAndFix
           => pump'.processCount > MaintenanceThreshold
        /\ (pump'.replace < pump.replace /\ ~pump'.exited)
           => pump'.processCount = 0]_vars
  /\ [](MaintenanceRuns <= 1)

====
